---- MODULE Spec2Model ----
(***************************************************************************)
(* Client-side analytical pipeline of the EchoAI review dashboard:         *)
(* ingestion of decoded spreadsheet rows, date / fiscal-year resolution,   *)
(* cascading filters, the review browser (filter, sort, paginate) and the  *)
(* overview time series.                                                   *)
(*                                                                         *)
(* Text is modelled as a sequence of UTF-16 code units (naturals), so that *)
(* split, toLowerCase, includes, parseInt, Number, toString, slice and the *)
(* default string ordering are computed the way the JavaScript runtime     *)
(* computes them.  A JavaScript number is [nan, v]; a Date is              *)
(* [kind, days] with days counted from 1970-01-01 (local midnight).        *)
(***************************************************************************)
EXTENDS Integers, Sequences, FiniteSets, TLC

VARIABLES
    data,                 \* QSRDashboard: the dataset handed to the views
    activeTab,            \* QSRDashboard: the mounted view
    period,               \* view state: daily | weekly | monthly
    selectedRegion,
    selectedAreaManager,
    selectedStore,
    selectedAggregator,
    selectedMetaCluster,  \* DetailedReviews only
    selectedSubject,      \* DetailedReviews only
    searchTerm,           \* DetailedReviews only
    sortField,            \* DetailedReviews only
    sortOrder,            \* DetailedReviews only
    currentPage,          \* DetailedReviews only
    rowsPerPage,          \* DetailedReviews only
    dateIn,               \* date resolution: the dateRaw under resolution
    dateOut,              \* date resolution: what each view resolved it to
    sheet,                \* ingestion: the decoded spreadsheet (header row + rows)
    ingestPath,           \* ingestion: which loader and schema variant runs
    loading,              \* QSRDashboard: the shared loading flag
    lastToast,            \* the notification raised last (useToast)
    fetchOutcome,         \* ingestion: how the download of the load attempt ended
    uploadedFiles,        \* FileUpload: the upload history, newest first
    uploading,            \* FileUpload: the uploading flag
    uploadsInFlight,      \* FileUpload: the jobs whose uploadFile call is pending
    nextJob,              \* ingestion service: the next job it creates
    service,              \* ingestion service: the state of each job
    checks,               \* FileUpload: the checkProcessingStatus loops
    failures              \* ingestion service: the status checks that failed

viewVars == <<period, selectedRegion, selectedAreaManager, selectedStore,
              selectedAggregator, selectedMetaCluster, selectedSubject, searchTerm,
              sortField, sortOrder, currentPage, rowsPerPage>>

dateVars == <<dateIn, dateOut>>

historyVars == <<uploadedFiles, uploading, uploadsInFlight, nextJob, service, checks,
                 failures>>

ingestVars == <<sheet, ingestPath, loading, lastToast, fetchOutcome, historyVars>>

vars == <<data, activeTab, viewVars, dateVars, ingestVars>>

(***************************************************************************)
(* Text                                                                    *)
(***************************************************************************)

\* ''
Empty == <<>>

\* 'all'
ALL == <<97, 108, 108>>

\* 'Unknown'
Unknown == <<85, 110, 107, 110, 111, 119, 110>>

\* the separator of item.Date.split('/')
Slash == <<47>>

\* undefined, told apart from every text by a code unit no text holds
Undefined == <<-1>>

IsUndefined(x) == x = Undefined

\* JavaScript truthiness of a value that is undefined or a string
Truthy(s) == ~IsUndefined(s) /\ s # Empty

IsDigit(c) == c >= 48 /\ c <= 57

\* String.prototype.toLowerCase on the code units A..Z
LowerChar(c) == IF c >= 65 /\ c <= 90 THEN c + 32 ELSE c

toLowerCase(s) == [i \in 1..Len(s) |-> LowerChar(s[i])]

\* String.prototype.includes
includes(s, t) ==
    \E i \in 0..(Len(s) - Len(t)) : \A j \in 1..Len(t) : s[i + j] = t[j]

\* the default Array.prototype.sort order and the < of two strings:
\* code unit by code unit, a proper prefix first
RECURSIVE StrLess(_, _)
StrLess(a, b) ==
    IF b = <<>> THEN FALSE
    ELSE IF a = <<>> THEN TRUE
    ELSE IF Head(a) < Head(b) THEN TRUE
    ELSE IF Head(a) > Head(b) THEN FALSE
    ELSE StrLess(Tail(a), Tail(b))

\* String.prototype.split for a one-character separator; ''.split('/') is ['']
RECURSIVE SplitFrom(_, _, _)
SplitFrom(s, sep, cur) ==
    IF s = <<>> THEN <<cur>>
    ELSE IF Head(s) = sep THEN <<cur>> \o SplitFrom(Tail(s), sep, <<>>)
    ELSE SplitFrom(Tail(s), sep, Append(cur, Head(s)))

split(s, sep) == SplitFrom(s, sep[1], <<>>)

\* const [day, month, year] = parts : a missing element is undefined
At(parts, i) == IF i <= Len(parts) THEN parts[i] ELSE Undefined

\* String.prototype.slice(-2)
sliceLast2(s) == IF Len(s) <= 2 THEN s ELSE SubSeq(s, Len(s) - 1, Len(s))

(***************************************************************************)
(* Numbers                                                                 *)
(***************************************************************************)

NaN == [nan |-> TRUE, v |-> 0]

Num(n) == [nan |-> FALSE, v |-> n]

RECURSIVE DigitsValue(_, _)
DigitsValue(s, acc) ==
    IF s = <<>> THEN acc ELSE DigitsValue(Tail(s), acc * 10 + (Head(s) - 48))

RECURSIVE DigitPrefix(_)
DigitPrefix(s) ==
    IF s = <<>> \/ ~IsDigit(Head(s)) THEN <<>> ELSE <<Head(s)>> \o DigitPrefix(Tail(s))

\* parseInt(s): the longest prefix of decimal digits, NaN when there is none
\* (the inputs hold no white space, sign or 0x prefix)
parseInt(s) ==
    IF DigitPrefix(s) = <<>> THEN NaN ELSE Num(DigitsValue(DigitPrefix(s), 0))

\* Number(s): undefined is NaN, '' is 0, a string of decimal digits is its value,
\* any other text of the inputs is NaN
Number(s) ==
    IF IsUndefined(s) THEN NaN
    ELSE IF \A i \in 1..Len(s) : IsDigit(s[i]) THEN Num(DigitsValue(s, 0))
    ELSE NaN

\* a + b, a - b on numbers
Plus(a, b) == IF a.nan \/ b.nan THEN NaN ELSE Num(a.v + b.v)

Minus(a, b) == IF a.nan \/ b.nan THEN NaN ELSE Num(a.v - b.v)

\* a < b , a >= b : false as soon as one side is NaN
LessThan(a, b) == ~a.nan /\ ~b.nan /\ a.v < b.v

AtLeast(a, b) == ~a.nan /\ ~b.nan /\ a.v >= b.v

\* Number.prototype.toString of a non-negative integer
RECURSIVE NatToString(_)
NatToString(n) ==
    IF n < 10 THEN <<48 + n>> ELSE NatToString(n \div 10) \o <<48 + (n % 10)>>

\* template-literal text of a number
toString(a) ==
    IF a.nan THEN <<78, 97, 78>>
    ELSE IF a.v < 0 THEN <<45>> \o NatToString(0 - a.v)
    ELSE NatToString(a.v)

(***************************************************************************)
(* Dates                                                                   *)
(***************************************************************************)

\* day number of the civil date y-m-d (m in 1..12), proleptic Gregorian
DaysFromCivil(y, m, d) ==
    LET yy  == IF m <= 2 THEN y - 1 ELSE y
        era == yy \div 400
        yoe == yy - era * 400
        mp  == IF m > 2 THEN m - 3 ELSE m + 9
        doy == (153 * mp + 2) \div 5 + d - 1
        doe == yoe * 365 + yoe \div 4 - yoe \div 100 + doy
    IN  era * 146097 + doe - 719468

\* the civil date of a day number
CivilFromDays(z) ==
    LET zz  == z + 719468
        era == zz \div 146097
        doe == zz - era * 146097
        yoe == (doe - doe \div 1460 + doe \div 36524 - doe \div 146096) \div 365
        doy == doe - (365 * yoe + yoe \div 4 - yoe \div 100)
        mp  == (5 * doy + 2) \div 153
        d   == doy - (153 * mp + 2) \div 5 + 1
        m   == IF mp < 10 THEN mp + 3 ELSE mp - 9
        y   == yoe + era * 400 + (IF m <= 2 THEN 1 ELSE 0)
    IN  [y |-> y, m |-> m, d |-> d]

NullDate == [kind |-> "null", days |-> 0]

InvalidDate == [kind |-> "invalid", days |-> 0]

\* new Date(year, monthIndex, day): Invalid Date when an argument is NaN; a year
\* 0..99 means 1900 + year; month and day out of range carry over
NewDate(year, monthIndex, day) ==
    IF year.nan \/ monthIndex.nan \/ day.nan THEN InvalidDate
    ELSE LET y0 == IF year.v >= 0 /\ year.v <= 99 THEN 1900 + year.v ELSE year.v
             ym == y0 + (monthIndex.v \div 12)
             mn == monthIndex.v % 12
         IN  [kind |-> "date", days |-> DaysFromCivil(ym, mn + 1, 1) + day.v - 1]

\* !date : only null is falsy, an Invalid Date is an object
Falsy(date) == date.kind = "null"

getFullYear(date) == CivilFromDays(date.days).y

getMonth(date) == CivilFromDays(date.days).m - 1

getDate(date) == CivilFromDays(date.days).d

\* 0 = Sunday; 1970-01-01 was a Thursday
getDay(date) == (date.days + 4) % 7

\* date-fns startOfWeek (weekStartsOn 0) and startOfMonth: an Invalid Date stays one
startOfWeek(date) ==
    IF date.kind # "date" THEN date ELSE [date EXCEPT !.days = date.days - getDay(date)]

startOfMonth(date) ==
    IF date.kind # "date" THEN date ELSE [date EXCEPT !.days = date.days - (getDate(date) - 1)]

(***************************************************************************)
(* Date / fiscal-period resolution, view by view                           *)
(***************************************************************************)

\* a variant of the two-digit rule with the pivot moved by one ('50' -> 2050)
DR_fullYear_pivot51(year) ==
    IF Len(year) = 2
    THEN IF LessThan(parseInt(year), Num(51))
         THEN Plus(Num(2000), parseInt(year))
         ELSE Plus(Num(1900), parseInt(year))
    ELSE parseInt(year)

\* year.length === 2 ? (parseInt(year) < 50 ? 2000 + parseInt(year)
\*                                           : 1900 + parseInt(year))
\*                   : parseInt(year)
DR_fullYear(year) ==
    IF Len(year) = 2
    THEN IF LessThan(parseInt(year), Num(50))
         THEN Plus(Num(2000), parseInt(year))
         ELSE Plus(Num(1900), parseInt(year))
    ELSE parseInt(year)

\* DetailedReviews processedData: parsedDate of item.Date
DR_parsedDate(date) ==
    LET parts == split(date, Slash)
        day   == At(parts, 1)
        month == At(parts, 2)
        year  == At(parts, 3)
    IN  IF ~Truthy(day) \/ ~Truthy(month) \/ ~Truthy(year) THEN NullDate
        ELSE NewDate(DR_fullYear(year), Minus(parseInt(month), Num(1)), parseInt(day))

\* ClustersAnalysis processedData: parsedDate (the same text as DetailedReviews)
CA_fullYear(year) ==
    IF Len(year) = 2
    THEN IF LessThan(parseInt(year), Num(50))
         THEN Plus(Num(2000), parseInt(year))
         ELSE Plus(Num(1900), parseInt(year))
    ELSE parseInt(year)

CA_parsedDate(date) ==
    LET parts == split(date, Slash)
        day   == At(parts, 1)
        month == At(parts, 2)
        year  == At(parts, 3)
    IN  IF ~Truthy(day) \/ ~Truthy(month) \/ ~Truthy(year) THEN NullDate
        ELSE NewDate(CA_fullYear(year), Minus(parseInt(month), Num(1)), parseInt(day))

\* `FY${a}-${b.toString().slice(-2)}`
FYLabel(a, b) == <<70, 89>> \o toString(a) \o <<45>> \o sliceLast2(toString(b))

\* a variant of the fiscal-year rule whose year starts in May
CA_financialYear_fromMay(date) ==
    LET parts    == split(date, Slash)
        day      == At(parts, 1)
        month    == At(parts, 2)
        year     == At(parts, 3)
        fullYear == CA_fullYear(year)
        monthNum == parseInt(month)
    IN  IF ~Truthy(day) \/ ~Truthy(month) \/ ~Truthy(year) THEN Empty
        ELSE IF AtLeast(monthNum, Num(5))
             THEN FYLabel(fullYear, Plus(fullYear, Num(1)))
             ELSE FYLabel(Minus(fullYear, Num(1)), fullYear)

\* ClustersAnalysis processedData: financialYear
CA_financialYear(date) ==
    LET parts    == split(date, Slash)
        day      == At(parts, 1)
        month    == At(parts, 2)
        year     == At(parts, 3)
        fullYear == CA_fullYear(year)
        monthNum == parseInt(month)
    IN  IF ~Truthy(day) \/ ~Truthy(month) \/ ~Truthy(year) THEN Empty
        ELSE IF AtLeast(monthNum, Num(4))
             THEN FYLabel(fullYear, Plus(fullYear, Num(1)))
             ELSE FYLabel(Minus(fullYear, Num(1)), fullYear)

\* RegionsAnalysis processedData: parsedDate and financialYear
RA_fullYear(year) ==
    IF Len(year) = 2
    THEN IF LessThan(parseInt(year), Num(50))
         THEN Plus(Num(2000), parseInt(year))
         ELSE Plus(Num(1900), parseInt(year))
    ELSE parseInt(year)

RA_parsedDate(date) ==
    LET parts == split(date, Slash)
        day   == At(parts, 1)
        month == At(parts, 2)
        year  == At(parts, 3)
    IN  IF ~Truthy(day) \/ ~Truthy(month) \/ ~Truthy(year) THEN NullDate
        ELSE NewDate(RA_fullYear(year), Minus(parseInt(month), Num(1)), parseInt(day))

RA_financialYear(date) ==
    LET parts    == split(date, Slash)
        day      == At(parts, 1)
        month    == At(parts, 2)
        year     == At(parts, 3)
        fullYear == RA_fullYear(year)
        monthNum == parseInt(month)
    IN  IF ~Truthy(day) \/ ~Truthy(month) \/ ~Truthy(year) THEN Empty
        ELSE IF AtLeast(monthNum, Num(4))
             THEN FYLabel(fullYear, Plus(fullYear, Num(1)))
             ELSE FYLabel(Minus(fullYear, Num(1)), fullYear)

\* NewOverviewPanel processedData:
\*   const fullYear = year < 50 ? 2000 + year : 1900 + year
NOP_fullYear(year) ==
    IF LessThan(year, Num(50)) THEN Plus(Num(2000), year) ELSE Plus(Num(1900), year)

\* NewOverviewPanel processedData: the temporal fields of one item;
\* [day, month, year] = item.Date.split('/').map(Number)
NOP_resolve(date) ==
    LET parts    == split(date, Slash)
        day      == Number(At(parts, 1))
        month    == Number(At(parts, 2))
        year     == Number(At(parts, 3))
        fullYear == NOP_fullYear(year)
        dateObj  == NewDate(fullYear, Minus(month, Num(1)), day)
    IN  [fullYear      |-> fullYear,
         dateObj       |-> dateObj,
         financialYear |-> IF AtLeast(month, Num(4)) THEN fullYear
                           ELSE Minus(fullYear, Num(1)),
         weekStart     |-> startOfWeek(dateObj),
         monthStart    |-> startOfMonth(dateObj)]

(***************************************************************************)
(* Date resolution as a state machine: one dateRaw is drawn, every view    *)
(* resolves it.                                                            *)
(***************************************************************************)

\* '15', '31', '01', '1', '', 'xx'
DayParts == {<<49, 53>>, <<51, 49>>, <<48, 49>>, <<49>>, <<>>, <<120, 120>>}

\* '03', '04', '06', '12', '1', '', 'xx'
MonthParts == {<<48, 51>>, <<48, 52>>, <<48, 54>>, <<49, 50>>, <<49>>, <<>>,
               <<120, 120>>}

\* every two-digit year '00' .. '99'
TwoDigitYears == {<<48 + a, 48 + b>> : a \in 0..9, b \in 0..9}

\* '2024', '2023', '2000', '1999', '1985', '1049'
FourDigitYears == {<<50, 48, 50, 52>>, <<50, 48, 50, 51>>, <<50, 48, 48, 48>>,
                   <<49, 57, 57, 57>>, <<49, 57, 56, 53>>, <<49, 48, 52, 57>>}

\* '', 'xx', '2x'
BrokenYears == {<<>>, <<120, 120>>, <<50, 120>>}

YearParts == TwoDigitYears \cup FourDigitYears \cup BrokenYears

\* '', '15', '15/06' : fewer than three parts
ShortDates == {<<>>, <<49, 53>>, <<49, 53, 47, 48, 54>>}

DateInputs ==
    {d \o Slash \o m \o Slash \o y : d \in DayParts, m \in MonthParts, y \in YearParts}
        \cup ShortDates

NotResolved ==
    [done     |-> FALSE,
     reviews  |-> NullDate,
     clusters |-> [parsedDate |-> NullDate, financialYear |-> Empty],
     regions  |-> [parsedDate |-> NullDate, financialYear |-> Empty],
     overview |-> [fullYear |-> NaN, dateObj |-> InvalidDate, financialYear |-> NaN,
                   weekStart |-> InvalidDate, monthStart |-> InvalidDate]]

\* the map callbacks of the four processedData memos, applied to one item
ResolveDate ==
    /\ ~dateOut.done
    /\ dateOut' = [done     |-> TRUE,
                   reviews  |-> DR_parsedDate(dateIn),
                   clusters |-> [parsedDate    |-> CA_parsedDate(dateIn),
                                 financialYear |-> CA_financialYear(dateIn)],
                   regions  |-> [parsedDate    |-> RA_parsedDate(dateIn),
                                 financialYear |-> RA_financialYear(dateIn)],
                   overview |-> NOP_resolve(dateIn)]
    /\ UNCHANGED <<dateIn, data, activeTab, viewVars, ingestVars>>

(***************************************************************************)
(* Review records                                                          *)
(***************************************************************************)

\* ReviewData (the fields the views read); 'Area Manger Name' is the source's
\* spelling of the column
Review(store, region, date, remark, subject, aggregator, manager, cluster, meta) ==
    [StoreName         |-> store,
     Region            |-> region,
     Date              |-> date,
     Remark            |-> remark,
     Subject           |-> subject,
     Aggregator        |-> aggregator,
     AreaMangerName    |-> manager,
     LLM_Cluster_Label |-> cluster,
     LLM_Meta_Label    |-> meta]

\* store p, region N, 15/06/23, 'Ab', subject f, aggregator w, manager a, c / Q
RecA == Review(<<112>>, <<78>>, <<49, 53, 47, 48, 54, 47, 50, 51>>, <<65, 98>>,
               <<102>>, <<119>>, <<97>>, <<99>>, <<81>>)

\* store q, region N, 01/04/24, 'ba', subject g, aggregator z, manager b, d / T
RecB == Review(<<113>>, <<78>>, <<48, 49, 47, 48, 52, 47, 50, 52>>, <<98, 97>>,
               <<103>>, <<122>>, <<98>>, <<100>>, <<84>>)

\* store p, region S, no date, 'aB', subject f, aggregator w, manager a, c / Q
RecC == Review(<<112>>, <<83>>, <<>>, <<97, 66>>,
               <<102>>, <<119>>, <<97>>, <<99>>, <<81>>)

\* store q, region S, 31/03/2024, 'b', no subject, aggregator z, no manager, d / T
RecD == Review(<<113>>, <<83>>, <<51, 49, 47, 48, 51, 47, 50, 48, 50, 52>>, <<98>>,
               <<>>, <<122>>, <<>>, <<100>>, <<84>>)

RecordUniverse == {RecA, RecB, RecC, RecD}

\* the longest dataset drawn record by record
MaxRecords == 1

\* the length of the one long dataset (its dated records fill more than one page of 10 rows)
LongLen == 14

RECURSIVE SeqsUpTo(_, _)
SeqsUpTo(S, n) ==
    IF n = 0 THEN {<<>>}
    ELSE LET shorter == SeqsUpTo(S, n - 1)
         IN  shorter \cup {Append(q, x) : q \in shorter, x \in S}

LongDataset ==
    [i \in 1..LongLen |->
        CASE i % 4 = 1 -> RecA [] i % 4 = 2 -> RecB [] i % 4 = 3 -> RecC [] OTHER -> RecD]

\* the datasets a view is mounted with (QSRDashboard renders the views only when
\* data.length > 0)
Datasets == (SeqsUpTo(RecordUniverse, MaxRecords) \ {<<>>}) \cup {LongDataset}

\* the letter of a search term, 'A', and the longest term
SearchAlphabet == {65}

MaxSearchLen == 1

SearchTerms == SeqsUpTo(SearchAlphabet, MaxSearchLen)

(***************************************************************************)
(* Sequences                                                               *)
(***************************************************************************)

\* [...new Set(xs)] : the distinct values in order of first occurrence
RECURSIVE Distinct(_, _)
Distinct(s, seen) ==
    IF s = <<>> THEN <<>>
    ELSE IF Head(s) \in seen THEN Distinct(Tail(s), seen)
    ELSE <<Head(s)>> \o Distinct(Tail(s), seen \cup {Head(s)})

\* xs.sort() : ascending in code-unit order (a stable insertion)
RECURSIVE InsertText(_, _)
InsertText(sorted, x) ==
    IF sorted = <<>> THEN <<x>>
    ELSE IF StrLess(x, Head(sorted)) THEN <<x>> \o sorted
    ELSE <<Head(sorted)>> \o InsertText(Tail(sorted), x)

RECURSIVE SortText(_)
SortText(s) ==
    IF s = <<>> THEN <<>> ELSE InsertText(SortText(SubSeq(s, 1, Len(s) - 1)), s[Len(s)])

\* a variant of the option list that keeps blank values
Options_keepBlank(values) == SortText(Distinct(values, {}))

\* [...new Set(values)].filter(Boolean).sort()
Options(values) == SortText(SelectSeq(Distinct(values, {}), Truthy))

Range(s) == {s[i] : i \in DOMAIN s}

(***************************************************************************)
(* DetailedReviews (the review browser)                                    *)
(***************************************************************************)

\* the filter selections of a view; a view without a dimension leaves it at 'all'
FilterState(region, manager, store, aggregator, meta, subject, term) ==
    [selectedRegion      |-> region,
     selectedAreaManager |-> manager,
     selectedStore       |-> store,
     selectedAggregator  |-> aggregator,
     selectedMetaCluster |-> meta,
     selectedSubject     |-> subject,
     searchTerm          |-> term]

\* a variant of the base filter whose region test forgets the 'all' sentinel
DR_filteredData_regionAlways(R, F) ==
    SelectSeq(R, LAMBDA item :
        ~ \/ item.Region # F.selectedRegion
          \/ (F.selectedAreaManager # ALL /\ item.AreaMangerName # F.selectedAreaManager)
          \/ (F.selectedStore # ALL /\ item.StoreName # F.selectedStore)
          \/ (F.selectedAggregator # ALL /\ item.Aggregator # F.selectedAggregator)
          \/ (F.selectedMetaCluster # ALL /\ item.LLM_Meta_Label # F.selectedMetaCluster)
          \/ (F.selectedSubject # ALL /\ item.Subject # F.selectedSubject))

\* DetailedReviews filterOptions: the base filter over all six selections
DR_filteredData(R, F) ==
    SelectSeq(R, LAMBDA item :
        ~ \/ (F.selectedRegion # ALL /\ item.Region # F.selectedRegion)
          \/ (F.selectedAreaManager # ALL /\ item.AreaMangerName # F.selectedAreaManager)
          \/ (F.selectedStore # ALL /\ item.StoreName # F.selectedStore)
          \/ (F.selectedAggregator # ALL /\ item.Aggregator # F.selectedAggregator)
          \/ (F.selectedMetaCluster # ALL /\ item.LLM_Meta_Label # F.selectedMetaCluster)
          \/ (F.selectedSubject # ALL /\ item.Subject # F.selectedSubject))

\* DetailedReviews filterOptions
DR_filterOptions(R, F) ==
    LET filteredData == DR_filteredData(R, F)
        okRegion(d)  == F.selectedRegion = ALL \/ d.Region = F.selectedRegion
        okManager(d) == F.selectedAreaManager = ALL \/ d.AreaMangerName = F.selectedAreaManager
        okStore(d)   == F.selectedStore = ALL \/ d.StoreName = F.selectedStore
        okAggr(d)    == F.selectedAggregator = ALL \/ d.Aggregator = F.selectedAggregator
        okMeta(d)    == F.selectedMetaCluster = ALL \/ d.LLM_Meta_Label = F.selectedMetaCluster
        forManagers  == SelectSeq(filteredData, okRegion)
        forStores    == SelectSeq(filteredData, LAMBDA d : okRegion(d) /\ okManager(d))
        forAggrs     == SelectSeq(filteredData,
                            LAMBDA d : okRegion(d) /\ okManager(d) /\ okStore(d))
        forMetas     == SelectSeq(filteredData,
                            LAMBDA d : okRegion(d) /\ okManager(d) /\ okStore(d) /\ okAggr(d))
        forSubjects  == SelectSeq(filteredData,
                            LAMBDA d : okRegion(d) /\ okManager(d) /\ okStore(d)
                                       /\ okAggr(d) /\ okMeta(d))
    IN  [regions      |-> Options([i \in DOMAIN R |-> R[i].Region]),
         areaManagers |-> Options([i \in DOMAIN forManagers |-> forManagers[i].AreaMangerName]),
         stores       |-> Options([i \in DOMAIN forStores |-> forStores[i].StoreName]),
         aggregators  |-> Options([i \in DOMAIN forAggrs |-> forAggrs[i].Aggregator]),
         metaClusters |-> Options([i \in DOMAIN forMetas |-> forMetas[i].LLM_Meta_Label]),
         subjects     |-> Options([i \in DOMAIN forSubjects |-> forSubjects[i].Subject])]

\* DetailedReviews processedData: the filter predicate on a mapped item
DR_keep(item, F) ==
    ~ \/ Falsy(item.parsedDate)
      \/ (F.selectedRegion # ALL /\ item.item.Region # F.selectedRegion)
      \/ (F.selectedAreaManager # ALL /\ item.item.AreaMangerName # F.selectedAreaManager)
      \/ (F.selectedStore # ALL /\ item.item.StoreName # F.selectedStore)
      \/ (F.selectedAggregator # ALL /\ item.item.Aggregator # F.selectedAggregator)
      \/ (F.selectedMetaCluster # ALL /\ item.item.LLM_Meta_Label # F.selectedMetaCluster)
      \/ (F.selectedSubject # ALL /\ item.item.Subject # F.selectedSubject)
      \/ (Truthy(F.searchTerm)
            /\ ~includes(toLowerCase(item.item.Remark), toLowerCase(F.searchTerm)))

\* a.parsedDate?.getTime() || 0 , in days: NaN (an Invalid Date) and 0 give 0
DR_dateKey(item) == IF item.parsedDate.kind = "date" THEN item.parsedDate.days ELSE 0

\* DetailedReviews processedData: the sort comparator (-1, 0 or 1)
DR_compare(a, b, field, order) ==
    LET less ==
            CASE field = "date"         -> DR_dateKey(a) < DR_dateKey(b)
              [] field = "region"       -> StrLess(a.item.Region, b.item.Region)
              [] field = "store"        -> StrLess(a.item.StoreName, b.item.StoreName)
              [] field = "meta-cluster" -> StrLess(a.item.LLM_Meta_Label, b.item.LLM_Meta_Label)
              [] field = "subject"      -> StrLess(a.item.Subject, b.item.Subject)
        greater ==
            CASE field = "date"         -> DR_dateKey(a) > DR_dateKey(b)
              [] field = "region"       -> StrLess(b.item.Region, a.item.Region)
              [] field = "store"        -> StrLess(b.item.StoreName, a.item.StoreName)
              [] field = "meta-cluster" -> StrLess(b.item.LLM_Meta_Label, a.item.LLM_Meta_Label)
              [] field = "subject"      -> StrLess(b.item.Subject, a.item.Subject)
    IN  IF order = "asc"
        THEN IF less THEN -1 ELSE IF greater THEN 1 ELSE 0
        ELSE IF greater THEN -1 ELSE IF less THEN 1 ELSE 0

\* a variant of the insertion that is not stable: an element goes before the
\* first element it does not compare greater than
RECURSIVE DR_insert_unstable(_, _, _, _)
DR_insert_unstable(sorted, x, field, order) ==
    IF sorted = <<>> THEN <<x>>
    ELSE IF DR_compare(x, Head(sorted), field, order) <= 0 THEN <<x>> \o sorted
    ELSE <<Head(sorted)>> \o DR_insert_unstable(Tail(sorted), x, field, order)

\* Array.prototype.sort(compare) is stable: an element goes before the first
\* element it compares less than
RECURSIVE DR_insert(_, _, _, _)
DR_insert(sorted, x, field, order) ==
    IF sorted = <<>> THEN <<x>>
    ELSE IF DR_compare(x, Head(sorted), field, order) < 0 THEN <<x>> \o sorted
    ELSE <<Head(sorted)>> \o DR_insert(Tail(sorted), x, field, order)

\* a variant of the sort that inserts the elements last to first, so that
\* equal elements end up in reverse order
RECURSIVE DR_sort_lastFirst(_, _, _)
DR_sort_lastFirst(s, field, order) ==
    IF s = <<>> THEN <<>>
    ELSE DR_insert(DR_sort_lastFirst(Tail(s), field, order), Head(s), field, order)

RECURSIVE DR_sort(_, _, _)
DR_sort(s, field, order) ==
    IF s = <<>> THEN <<>>
    ELSE DR_insert(DR_sort(SubSeq(s, 1, Len(s) - 1), field, order), s[Len(s)], field, order)

\* DetailedReviews processedData: map (parsedDate), filter, sort
DR_processedData(R, F, field, order) ==
    LET mapped   == [i \in DOMAIN R |-> [item |-> R[i], parsedDate |-> DR_parsedDate(R[i].Date)]]
        filtered == SelectSeq(mapped, LAMBDA item : DR_keep(item, F))
    IN  DR_sort(filtered, field, order)

\* Math.ceil(processedData.length / rowsPerPage)
DR_totalPages(n, perPage) == (n + perPage - 1) \div perPage

\* a variant of the slice whose start index is one page too far
DR_paginatedData_fromPage(processed, page, perPage) ==
    LET startIndex == page * perPage
        from       == IF startIndex < Len(processed) THEN startIndex ELSE Len(processed)
        to         == IF startIndex + perPage < Len(processed) THEN startIndex + perPage
                      ELSE Len(processed)
    IN  SubSeq(processed, from + 1, to)

\* processedData.slice(startIndex, startIndex + rowsPerPage)
DR_paginatedData(processed, page, perPage) ==
    LET startIndex == (page - 1) * perPage
        from       == IF startIndex < Len(processed) THEN startIndex ELSE Len(processed)
        to         == IF startIndex + perPage < Len(processed) THEN startIndex + perPage
                      ELSE Len(processed)
    IN  SubSeq(processed, from + 1, to)

\* the rows-per-page choices of the Select
RowsPerPageChoices == {10, 25, 50, 100}

SortFields == {"date", "region", "store", "meta-cluster", "subject"}

Periods == {"daily", "weekly", "monthly"}

Tabs == {"overview", "cities", "clusters", "reviews"}

(***************************************************************************)
(* NewOverviewPanel                                                        *)
(***************************************************************************)

\* NewOverviewPanel filterOptions: the base filter over the four selections
NOP_filteredData(R, F) ==
    SelectSeq(R, LAMBDA item :
        ~ \/ (F.selectedRegion # ALL /\ item.Region # F.selectedRegion)
          \/ (F.selectedAreaManager # ALL /\ item.AreaMangerName # F.selectedAreaManager)
          \/ (F.selectedStore # ALL /\ item.StoreName # F.selectedStore)
          \/ (F.selectedAggregator # ALL /\ item.Aggregator # F.selectedAggregator))

\* NewOverviewPanel filterOptions
NOP_filterOptions(R, F) ==
    LET filteredData == NOP_filteredData(R, F)
        okRegion(d)  == F.selectedRegion = ALL \/ d.Region = F.selectedRegion
        okManager(d) == F.selectedAreaManager = ALL \/ d.AreaMangerName = F.selectedAreaManager
        okStore(d)   == F.selectedStore = ALL \/ d.StoreName = F.selectedStore
        forManagers  == SelectSeq(filteredData, okRegion)
        forStores    == SelectSeq(filteredData, LAMBDA d : okRegion(d) /\ okManager(d))
        forAggrs     == SelectSeq(filteredData,
                            LAMBDA d : okRegion(d) /\ okManager(d) /\ okStore(d))
    IN  [regions      |-> Options([i \in DOMAIN R |-> R[i].Region]),
         areaManagers |-> Options([i \in DOMAIN forManagers |-> forManagers[i].AreaMangerName]),
         stores       |-> Options([i \in DOMAIN forStores |-> forStores[i].StoreName]),
         aggregators  |-> Options([i \in DOMAIN forAggrs |-> forAggrs[i].Aggregator])]

\* NewOverviewPanel processedData: map (temporal fields), filter
NOP_processedData(R, F) ==
    LET mapped == [i \in DOMAIN R |-> [item |-> R[i], t |-> NOP_resolve(R[i].Date)]]
    IN  SelectSeq(mapped, LAMBDA item :
            ~ \/ (F.selectedRegion # ALL /\ item.item.Region # F.selectedRegion)
              \/ (F.selectedAreaManager # ALL
                    /\ item.item.AreaMangerName # F.selectedAreaManager)
              \/ (F.selectedStore # ALL /\ item.item.StoreName # F.selectedStore)
              \/ (F.selectedAggregator # ALL /\ item.item.Aggregator # F.selectedAggregator))

\* two digits, zero padded
Pad2(n) == IF n < 10 THEN <<48>> \o NatToString(n) ELSE NatToString(n)

\* the short month names of the 'MMM' token
MonthNames ==
    << <<74, 97, 110>>, <<70, 101, 98>>, <<77, 97, 114>>, <<65, 112, 114>>,
       <<77, 97, 121>>, <<74, 117, 110>>, <<74, 117, 108>>, <<65, 117, 103>>,
       <<83, 101, 112>>, <<79, 99, 116>>, <<78, 111, 118>>, <<68, 101, 99>> >>

\* date-fns format(date, 'dd/MM/yy') of a valid date
FormatDayKey(date) ==
    Pad2(getDate(date)) \o Slash \o Pad2(getMonth(date) + 1) \o Slash
        \o Pad2(getFullYear(date) % 100)

\* date-fns format(date, 'MMM yyyy') of a valid date
FormatMonthKey(date) ==
    MonthNames[getMonth(date) + 1] \o <<32>> \o NatToString(getFullYear(date))

\* the key of one item under the period; format() throws a RangeError on an
\* Invalid Date
NOP_keyThrows(item, p) ==
    CASE p = "daily"  -> item.t.dateObj.kind # "date"
      [] p = "weekly" -> item.t.weekStart.kind # "date"
      [] OTHER        -> item.t.monthStart.kind # "date"

NOP_key(item, p) ==
    CASE p = "daily"  -> FormatDayKey(item.t.dateObj)
      [] p = "weekly" -> FormatDayKey(item.t.weekStart)
      [] OTHER        -> FormatMonthKey(item.t.monthStart)

\* groupedData after the forEach: one entry per key in order of first
\* occurrence, holding the count and the dateObj of the first item of the key
RECURSIVE NOP_group(_, _, _)
NOP_group(items, p, acc) ==
    IF items = <<>> THEN acc
    ELSE LET key == NOP_key(Head(items), p)
             at  == {i \in DOMAIN acc : acc[i].period = key}
         IN  IF at = {}
             THEN NOP_group(Tail(items), p,
                      Append(acc, [period |-> key, complaints |-> 1,
                                   date |-> Head(items).t.dateObj]))
             ELSE NOP_group(Tail(items), p,
                      [i \in DOMAIN acc |->
                          IF i \in at THEN [acc[i] EXCEPT !.complaints = @ + 1]
                          ELSE acc[i]])

\* .sort((a, b) => a.date.getTime() - b.date.getTime()) : stable
RECURSIVE NOP_insertByDate(_, _)
NOP_insertByDate(sorted, x) ==
    IF sorted = <<>> THEN <<x>>
    ELSE IF x.date.days - Head(sorted).date.days < 0 THEN <<x>> \o sorted
    ELSE <<Head(sorted)>> \o NOP_insertByDate(Tail(sorted), x)

RECURSIVE NOP_sortByDate(_)
NOP_sortByDate(s) ==
    IF s = <<>> THEN <<>>
    ELSE NOP_insertByDate(NOP_sortByDate(SubSeq(s, 1, Len(s) - 1)), s[Len(s)])

\* NewOverviewPanel timeSeriesData: thrown is TRUE when building it throws
NOP_timeSeriesData(processed, p) ==
    IF \E i \in DOMAIN processed : NOP_keyThrows(processed[i], p)
    THEN [thrown |-> TRUE, series |-> <<>>]
    ELSE LET sorted == NOP_sortByDate(NOP_group(processed, p, <<>>))
         IN  [thrown |-> FALSE,
              series |-> [i \in DOMAIN sorted |->
                             [period |-> sorted[i].period,
                              complaints |-> sorted[i].complaints]]]

(***************************************************************************)
(* ClustersAnalysis and RegionsAnalysis                                    *)
(***************************************************************************)

\* ClustersAnalysis filterOptions: the base filter over the four selections
CA_filteredData(R, F) ==
    SelectSeq(R, LAMBDA item :
        ~ \/ (F.selectedRegion # ALL /\ item.Region # F.selectedRegion)
          \/ (F.selectedAreaManager # ALL /\ item.AreaMangerName # F.selectedAreaManager)
          \/ (F.selectedStore # ALL /\ item.StoreName # F.selectedStore)
          \/ (F.selectedAggregator # ALL /\ item.Aggregator # F.selectedAggregator))

\* ClustersAnalysis filterOptions
CA_filterOptions(R, F) ==
    LET filteredData == CA_filteredData(R, F)
        okRegion(d)  == F.selectedRegion = ALL \/ d.Region = F.selectedRegion
        okManager(d) == F.selectedAreaManager = ALL \/ d.AreaMangerName = F.selectedAreaManager
        okStore(d)   == F.selectedStore = ALL \/ d.StoreName = F.selectedStore
        forManagers  == SelectSeq(filteredData, okRegion)
        forStores    == SelectSeq(filteredData, LAMBDA d : okRegion(d) /\ okManager(d))
        forAggrs     == SelectSeq(filteredData,
                            LAMBDA d : okRegion(d) /\ okManager(d) /\ okStore(d))
    IN  [regions      |-> Options([i \in DOMAIN R |-> R[i].Region]),
         areaManagers |-> Options([i \in DOMAIN forManagers |-> forManagers[i].AreaMangerName]),
         stores       |-> Options([i \in DOMAIN forStores |-> forStores[i].StoreName]),
         aggregators  |-> Options([i \in DOMAIN forAggrs |-> forAggrs[i].Aggregator])]

\* ClustersAnalysis processedData: map (parsedDate, financialYear), filter
CA_processedData(R, F) ==
    LET mapped == [i \in DOMAIN R |->
                      [item |-> R[i], parsedDate |-> CA_parsedDate(R[i].Date),
                       financialYear |-> CA_financialYear(R[i].Date)]]
    IN  SelectSeq(mapped, LAMBDA item :
            ~ \/ Falsy(item.parsedDate)
              \/ (F.selectedRegion # ALL /\ item.item.Region # F.selectedRegion)
              \/ (F.selectedAreaManager # ALL
                    /\ item.item.AreaMangerName # F.selectedAreaManager)
              \/ (F.selectedStore # ALL /\ item.item.StoreName # F.selectedStore)
              \/ (F.selectedAggregator # ALL /\ item.item.Aggregator # F.selectedAggregator))

\* RegionsAnalysis processedData: map (parsedDate, financialYear), filter
RA_processedData(R, F) ==
    LET mapped == [i \in DOMAIN R |->
                      [item |-> R[i], parsedDate |-> RA_parsedDate(R[i].Date),
                       financialYear |-> RA_financialYear(R[i].Date)]]
    IN  SelectSeq(mapped, LAMBDA item :
            ~ \/ Falsy(item.parsedDate)
              \/ (F.selectedRegion # ALL /\ item.item.Region # F.selectedRegion)
              \/ (F.selectedAreaManager # ALL
                    /\ item.item.AreaMangerName # F.selectedAreaManager)
              \/ (F.selectedStore # ALL /\ item.item.StoreName # F.selectedStore)
              \/ (F.selectedAggregator # ALL /\ item.item.Aggregator # F.selectedAggregator))

\* value || 'Unknown'
OrUnknown(v) == IF Truthy(v) THEN v ELSE Unknown

\* a variant of the reduce that starts every new key at 0
RECURSIVE CountKeys_fromZero(_, _)
CountKeys_fromZero(keys, acc) ==
    IF keys = <<>> THEN acc
    ELSE LET at == {i \in DOMAIN acc : acc[i].key = Head(keys)}
         IN  IF at = {}
             THEN CountKeys_fromZero(Tail(keys), Append(acc, [key |-> Head(keys), count |-> 0]))
             ELSE CountKeys_fromZero(Tail(keys),
                      [i \in DOMAIN acc |->
                          IF i \in at THEN [acc[i] EXCEPT !.count = @ + 1] ELSE acc[i]])

\* the reduce into a counts object: Object.entries lists the keys in order of
\* first occurrence
RECURSIVE CountKeys(_, _)
CountKeys(keys, acc) ==
    IF keys = <<>> THEN acc
    ELSE LET at == {i \in DOMAIN acc : acc[i].key = Head(keys)}
         IN  IF at = {}
             THEN CountKeys(Tail(keys), Append(acc, [key |-> Head(keys), count |-> 1]))
             ELSE CountKeys(Tail(keys),
                      [i \in DOMAIN acc |->
                          IF i \in at THEN [acc[i] EXCEPT !.count = @ + 1] ELSE acc[i]])

\* .sort((a, b) => b.count - a.count) : stable
RECURSIVE InsertByCount(_, _)
InsertByCount(sorted, x) ==
    IF sorted = <<>> THEN <<x>>
    ELSE IF Head(sorted).count - x.count < 0 THEN <<x>> \o sorted
    ELSE <<Head(sorted)>> \o InsertByCount(Tail(sorted), x)

RECURSIVE SortByCount(_)
SortByCount(s) ==
    IF s = <<>> THEN <<>>
    ELSE InsertByCount(SortByCount(SubSeq(s, 1, Len(s) - 1)), s[Len(s)])

\* ClustersAnalysis metaClustersData
CA_metaClustersData(processed) ==
    SortByCount(CountKeys([i \in DOMAIN processed |->
                              OrUnknown(processed[i].item.LLM_Meta_Label)], <<>>))

\* ClustersAnalysis llmClustersData
CA_llmClustersData(processed) ==
    SortByCount(CountKeys([i \in DOMAIN processed |->
                              OrUnknown(processed[i].item.LLM_Cluster_Label)], <<>>))

\* RegionsAnalysis regionalData
RA_regionalData(processed) ==
    SortByCount(CountKeys([i \in DOMAIN processed |->
                              OrUnknown(processed[i].item.Region)], <<>>))

\* .slice(0, n)
sliceTo(s, n) == SubSeq(s, 1, IF Len(s) < n THEN Len(s) ELSE n)

\* (count / data.length) * 100, kept as a fraction
Percentage(count, total) == [num |-> count * 100, den |-> total]

\* a variant of metaClusterPieCharts whose total is the number of all the
\* filtered records
NOP_metaClusterPieCharts_grandTotal(processed) ==
    LET metaClusters == Options([i \in DOMAIN processed |-> processed[i].item.LLM_Meta_Label])
        clusterData(metaCluster) ==
            SelectSeq(processed, LAMBDA d : d.item.LLM_Meta_Label = metaCluster)
        pieData(rows) ==
            LET counted == SortByCount(CountKeys([i \in DOMAIN rows |->
                                                     OrUnknown(rows[i].item.Subject)], <<>>))
            IN  [b \in DOMAIN counted |->
                    [name |-> counted[b].key, value |-> counted[b].count]]
    IN  [g \in DOMAIN metaClusters |->
            [metaCluster |-> metaClusters[g],
             data        |-> pieData(clusterData(metaClusters[g])),
             total       |-> Len(processed)]]

\* NewOverviewPanel metaClusterPieCharts: one group per non-blank meta label
\* in ascending order, its subjects counted and sorted by count
NOP_metaClusterPieCharts(processed) ==
    LET metaClusters == Options([i \in DOMAIN processed |-> processed[i].item.LLM_Meta_Label])
        clusterData(metaCluster) ==
            SelectSeq(processed, LAMBDA d : d.item.LLM_Meta_Label = metaCluster)
        pieData(rows) ==
            LET counted == SortByCount(CountKeys([i \in DOMAIN rows |->
                                                     OrUnknown(rows[i].item.Subject)], <<>>))
            IN  [b \in DOMAIN counted |->
                    [name |-> counted[b].key, value |-> counted[b].count]]
    IN  [g \in DOMAIN metaClusters |->
            [metaCluster |-> metaClusters[g],
             data        |-> pieData(clusterData(metaClusters[g])),
             total       |-> Len(clusterData(metaClusters[g]))]]

\* the inner share shown next to a subject: (item.value / cluster.total) * 100
NOP_innerShare(item, cluster) == Percentage(item.value, cluster.total)

\* NewOverviewPanel pieChartData: the raw field counted in a Map (keys in
\* order of first occurrence), sorted by count, top 8
NOP_pieChartData(processed, viewType) ==
    LET value(item) == IF viewType = "meta-clusters" THEN item.item.LLM_Meta_Label
                       ELSE item.item.Subject
        counted == SortByCount(CountKeys([i \in DOMAIN processed |-> value(processed[i])],
                                         <<>>))
        top     == sliceTo(counted, 8)
    IN  [b \in DOMAIN top |-> [name |-> top[b].key, value |-> top[b].count]]

\* OverviewPanel topIssues: the raw cluster labels counted, sorted by count,
\* top 8
OP_topIssues(R) ==
    LET counted == SortByCount(CountKeys([i \in DOMAIN R |-> R[i].LLM_Cluster_Label], <<>>))
        top     == sliceTo(counted, 8)
    IN  [b \in DOMAIN top |->
            [cluster    |-> top[b].key,
             count      |-> top[b].count,
             percentage |-> Percentage(top[b].count, Len(R))]]

\* OverviewPanel metaClusterDistribution: the raw meta labels counted, sorted
\* by count
OP_metaClusterDistribution(R) ==
    LET counted == SortByCount(CountKeys([i \in DOMAIN R |-> R[i].LLM_Meta_Label], <<>>))
    IN  [b \in DOMAIN counted |->
            [meta       |-> counted[b].key,
             count      |-> counted[b].count,
             percentage |-> Percentage(counted[b].count, Len(R))]]

\* .slice(-n)
sliceLast(s, n) == SubSeq(s, IF Len(s) < n THEN 1 ELSE Len(s) - n + 1, Len(s))

\* the day names of Date.prototype.toDateString, Sunday first
DayNames ==
    << <<83, 117, 110>>, <<77, 111, 110>>, <<84, 117, 101>>, <<87, 101, 100>>, <<84, 104, 117>>, <<70, 114, 105>>, <<83, 97, 116>> >>

\* 'Invalid Date', 'Week of ', ' NaN'
InvalidDateText == <<73, 110, 118, 97, 108, 105, 100, 32, 68, 97, 116, 101>>

WeekOf == <<87, 101, 101, 107, 32, 111, 102, 32>>

NaNSuffix == <<32, 78, 97, 78>>

\* four digits, zero padded
Pad4(n) ==
    IF n < 10 THEN <<48, 48, 48>> \o NatToString(n)
    ELSE IF n < 100 THEN <<48, 48>> \o NatToString(n)
    ELSE IF n < 1000 THEN <<48>> \o NatToString(n)
    ELSE NatToString(n)

\* Date.prototype.toDateString: 'Thu Jun 15 2023', or 'Invalid Date'
toDateString(date) ==
    IF date.kind # "date" THEN InvalidDateText
    ELSE DayNames[getDay(date) + 1] \o <<32>> \o MonthNames[getMonth(date) + 1] \o <<32>>
             \o Pad2(getDate(date)) \o <<32>> \o Pad4(getFullYear(date))

\* weekStart = new Date(date); weekStart.setDate(date.getDate() - date.getDay())
weekStartOf(date) ==
    IF date.kind # "date" THEN date ELSE [date EXCEPT !.days = date.days - getDay(date)]

\* the first day of the month of a date
monthStartOf(date) ==
    IF date.kind # "date" THEN date ELSE [date EXCEPT !.days = date.days - (getDate(date) - 1)]

\* `${date.toLocaleString('default', { month: 'short' })} ${date.getFullYear()}`
\* in an English locale
toMonthLabel(date) ==
    IF date.kind # "date" THEN InvalidDateText \o NaNSuffix
    ELSE MonthNames[getMonth(date) + 1] \o <<32>> \o NatToString(getFullYear(date))

\* RegionsAnalysis timeSeriesData / ClustersAnalysis clusterTrendsData: the
\* key of a date under the period
periodKey(date, p) ==
    CASE p = "daily"  -> toDateString(date)
      [] p = "weekly" -> WeekOf \o toDateString(weekStartOf(date))
      [] OTHER        -> toMonthLabel(date)

\* the day a period key of date stands for: the day, the Sunday of its week,
\* the first of its month
periodStart(date, p) ==
    CASE p = "daily"  -> date
      [] p = "weekly" -> weekStartOf(date)
      [] OTHER        -> monthStartOf(date)

\* new Date(label).getTime() for a label made by periodKey from one of the
\* dates given. Date.parse of a text that is not in the ISO format is
\* implementation-defined: every engine reads back its own toDateString, but
\* 'Week of Sun Jun 11 2023' and 'Jun 2023' (or a month name of another
\* locale) are read by some engines and are NaN in others; labelsParse says
\* which. The result is [nan, days].
parseLabel(label, p, dates, labelsParse) ==
    LET starts == {periodStart(d, p) : d \in {x \in dates : x.kind = "date"}}
        hits   == {d \in starts : periodKey(d, p) = label}
    IN  IF hits = {} \/ (p # "daily" /\ ~labelsParse) THEN [nan |-> TRUE, days |-> 0]
        ELSE [nan |-> FALSE, days |-> (CHOOSE d \in hits : TRUE).days]

\* new Date(a.period).getTime() - new Date(b.period).getTime(): NaN when
\* either is; sort takes a NaN result as 0
periodDifference(a, b, p, dates, labelsParse) ==
    LET ta == parseLabel(a.period, p, dates, labelsParse)
        tb == parseLabel(b.period, p, dates, labelsParse)
    IN  IF ta.nan \/ tb.nan THEN 0 ELSE ta.days - tb.days

\* .sort((a, b) => new Date(a.period).getTime() - new Date(b.period).getTime()),
\* stable
RECURSIVE insertByPeriod(_, _, _, _, _)
insertByPeriod(sorted, x, p, dates, labelsParse) ==
    IF sorted = <<>> THEN <<x>>
    ELSE IF periodDifference(x, Head(sorted), p, dates, labelsParse) < 0 THEN <<x>> \o sorted
    ELSE <<Head(sorted)>> \o insertByPeriod(Tail(sorted), x, p, dates, labelsParse)

RECURSIVE sortByPeriod(_, _, _, _)
sortByPeriod(s, p, dates, labelsParse) ==
    IF s = <<>> THEN <<>>
    ELSE insertByPeriod(sortByPeriod(SubSeq(s, 1, Len(s) - 1), p, dates, labelsParse),
                        s[Len(s)], p, dates, labelsParse)

\* RegionsAnalysis timeSeriesData
RA_timeSeriesData(processed, p, labelsParse) ==
    LET dates   == {processed[i].parsedDate : i \in DOMAIN processed}
        grouped == CountKeys([i \in DOMAIN processed |->
                                 periodKey(processed[i].parsedDate, p)], <<>>)
        entries == [b \in DOMAIN grouped |->
                       [period |-> grouped[b].key, complaints |-> grouped[b].count]]
    IN  sliceLast(sortByPeriod(entries, p, dates, labelsParse), 20)

\* ClustersAnalysis clusterTrendsData: per period the counts of the meta
\* clusters and their total
CA_clusterTrendsData(processed, p, labelsParse) ==
    LET dates   == {processed[i].parsedDate : i \in DOMAIN processed}
        grouped == CountKeys([i \in DOMAIN processed |->
                                 periodKey(processed[i].parsedDate, p)], <<>>)
        rows(key) == SelectSeq(processed, LAMBDA d : periodKey(d.parsedDate, p) = key)
        entries == [b \in DOMAIN grouped |->
                       [period   |-> grouped[b].key,
                        clusters |-> CountKeys([i \in DOMAIN rows(grouped[b].key) |->
                                        OrUnknown(rows(grouped[b].key)[i].item.LLM_Meta_Label)],
                                        <<>>),
                        total    |-> grouped[b].count]]
    IN  sliceLast(sortByPeriod(entries, p, dates, labelsParse), 12)

\* a variant of the trends array whose first half is the records dated strictly
\* before the midpoint date
NOP_trends_strictlyBefore(processed) ==
    LET metaClusters == Distinct([i \in DOMAIN processed |->
                                     processed[i].item.LLM_Meta_Label], {})
        midPointDate == processed[(Len(processed) \div 2) + 1].t.dateObj
        delta(cluster) ==
            LET clusterData     == SelectSeq(processed,
                                             LAMBDA d : d.item.LLM_Meta_Label = cluster)
                firstHalfCount  == Len(SelectSeq(clusterData,
                                       LAMBDA d : d.t.dateObj.days < midPointDate.days))
                secondHalfCount == Len(SelectSeq(clusterData,
                                       LAMBDA d : d.t.dateObj.days > midPointDate.days))
            IN  [cluster    |-> cluster,
                 change     |-> secondHalfCount - firstHalfCount,
                 firstHalf  |-> firstHalfCount,
                 secondHalf |-> secondHalfCount]
    IN  [c \in DOMAIN metaClusters |-> delta(metaClusters[c])]

\* NewOverviewPanel trendAnalysis: the trends array, one delta per meta label
\* in order of first occurrence; the first half is the records dated at or
\* before processedData[floor(n / 2)].dateObj, the second half those after it
NOP_trends(processed) ==
    LET metaClusters == Distinct([i \in DOMAIN processed |->
                                     processed[i].item.LLM_Meta_Label], {})
        midPointDate == processed[(Len(processed) \div 2) + 1].t.dateObj
        atOrBefore(d) == d.t.dateObj.kind = "date" /\ midPointDate.kind = "date"
                            /\ d.t.dateObj.days <= midPointDate.days
        after(d)      == d.t.dateObj.kind = "date" /\ midPointDate.kind = "date"
                            /\ d.t.dateObj.days > midPointDate.days
        delta(cluster) ==
            LET clusterData     == SelectSeq(processed,
                                             LAMBDA d : d.item.LLM_Meta_Label = cluster)
                firstHalfCount  == Len(SelectSeq(clusterData, atOrBefore))
                secondHalfCount == Len(SelectSeq(clusterData, after))
            IN  [cluster    |-> cluster,
                 change     |-> secondHalfCount - firstHalfCount,
                 firstHalf  |-> firstHalfCount,
                 secondHalf |-> secondHalfCount]
    IN  [c \in DOMAIN metaClusters |-> delta(metaClusters[c])]

\* .sort((a, b) => b.change - a.change) for sign 1, (a, b) => a.change - b.change
\* for sign -1 : stable
RECURSIVE insertByChange(_, _, _)
insertByChange(sorted, x, sign) ==
    IF sorted = <<>> THEN <<x>>
    ELSE IF sign * (Head(sorted).change - x.change) < 0 THEN <<x>> \o sorted
    ELSE <<Head(sorted)>> \o insertByChange(Tail(sorted), x, sign)

\* a variant of sortByChange that leaves the deltas in the order of the trends array
sortByChange_asIs(s, sign) == s

RECURSIVE sortByChange(_, _)
sortByChange(s, sign) ==
    IF s = <<>> THEN <<>>
    ELSE insertByChange(sortByChange(SubSeq(s, 1, Len(s) - 1), sign), s[Len(s)], sign)

\* the sum of the complaints of the buckets of a series
RECURSIVE sumComplaints(_)
sumComplaints(series) ==
    IF series = <<>> THEN 0 ELSE Head(series).complaints + sumComplaints(Tail(series))

\* NewOverviewPanel trendAnalysis of the processed records under period p;
\* thrown is TRUE when timeSeriesData, which it reads, throws
NOP_trendAnalysis(processed, p) ==
    LET ts == NOP_timeSeriesData(processed, p)
    IN  IF ts.thrown
        THEN [thrown |-> TRUE, computed |-> FALSE, increasing |-> <<>>, decreasing |-> <<>>,
              overallTrend |-> "none"]
        ELSE IF Len(ts.series) < 2
        THEN [thrown |-> FALSE, computed |-> FALSE, increasing |-> <<>>,
              decreasing |-> <<>>, overallTrend |-> "none"]
        ELSE LET midPoint   == Len(ts.series) \div 2
                 firstHalf  == SubSeq(ts.series, 1, midPoint)
                 secondHalf == SubSeq(ts.series, midPoint + 1, Len(ts.series))
                 trends     == NOP_trends(processed)
             IN  [thrown     |-> FALSE,
                  computed   |-> TRUE,
                  increasing |-> sliceTo(sortByChange(
                                     SelectSeq(trends, LAMBDA t : t.change > 0), 1), 3),
                  decreasing |-> sliceTo(sortByChange(
                                     SelectSeq(trends, LAMBDA t : t.change < 0), -1), 3),
                  \* secondHalfAvg > firstHalfAvg, cross-multiplied
                  overallTrend |->
                      IF sumComplaints(secondHalf) * Len(firstHalf)
                             > sumComplaints(firstHalf) * Len(secondHalf)
                      THEN "increasing" ELSE "decreasing"]

\* the Overall Trend Summary: the icon and the sentence are the increasing ones
\* when overallTrend === 'increasing' and the decreasing ones otherwise
NOP_overallTrendPresented(result) ==
    IF result.overallTrend = "increasing" THEN "increasing" ELSE "decreasing"

\* RegionsAnalysis filterOptions: the base filter over the four selections
RA_filteredData(R, F) ==
    SelectSeq(R, LAMBDA item :
        ~ \/ (F.selectedRegion # ALL /\ item.Region # F.selectedRegion)
          \/ (F.selectedAreaManager # ALL /\ item.AreaMangerName # F.selectedAreaManager)
          \/ (F.selectedStore # ALL /\ item.StoreName # F.selectedStore)
          \/ (F.selectedAggregator # ALL /\ item.Aggregator # F.selectedAggregator))

\* RegionsAnalysis filterOptions
RA_filterOptions(R, F) ==
    LET filteredData == RA_filteredData(R, F)
        okRegion(d)  == F.selectedRegion = ALL \/ d.Region = F.selectedRegion
        okManager(d) == F.selectedAreaManager = ALL \/ d.AreaMangerName = F.selectedAreaManager
        okStore(d)   == F.selectedStore = ALL \/ d.StoreName = F.selectedStore
        forManagers  == SelectSeq(filteredData, okRegion)
        forStores    == SelectSeq(filteredData, LAMBDA d : okRegion(d) /\ okManager(d))
        forAggrs     == SelectSeq(filteredData,
                            LAMBDA d : okRegion(d) /\ okManager(d) /\ okStore(d))
    IN  [regions      |-> Options([i \in DOMAIN R |-> R[i].Region]),
         areaManagers |-> Options([i \in DOMAIN forManagers |-> forManagers[i].AreaMangerName]),
         stores       |-> Options([i \in DOMAIN forStores |-> forStores[i].StoreName]),
         aggregators  |-> Options([i \in DOMAIN forAggrs |-> forAggrs[i].Aggregator])]

(***************************************************************************)
(* The dashboard as a state machine: one view is mounted at a time         *)
(***************************************************************************)

\* the useState initial values of a view
InitView ==
    /\ period = "monthly"
    /\ selectedRegion = ALL
    /\ selectedAreaManager = ALL
    /\ selectedStore = ALL
    /\ selectedAggregator = ALL
    /\ selectedMetaCluster = ALL
    /\ selectedSubject = ALL
    /\ searchTerm = Empty
    /\ sortField = "date"
    /\ sortOrder = "desc"
    /\ currentPage = 1
    /\ rowsPerPage = 25

NoSheet == [headers |-> <<>>, rows |-> <<>>]

IdleDate == dateIn = Empty /\ dateOut = NotResolved

\* the uploads of a session
MaxJobs == 2

\* the checkProcessingStatus loops that run at the same time
MaxChecks == 2

\* the status checks the service fails to answer
MaxFailures == 1

Jobs == 1..MaxJobs

\* a loop that checks nothing: its snapshot is empty
NoCheck == [files |-> <<>>, next |-> 1, response |-> "none"]

\* FileUpload after mount with an empty stored history; no job exists
IdleHistory ==
    /\ uploadedFiles = <<>>
    /\ uploading = FALSE
    /\ uploadsInFlight = {}
    /\ nextJob = 1
    /\ service = [j \in Jobs |-> "none"]
    /\ checks = [c \in 1..MaxChecks |-> NoCheck]
    /\ failures = 0

IdleIngest ==
    /\ sheet = NoSheet
    /\ ingestPath = "none"
    /\ loading = FALSE
    /\ lastToast = "none"
    /\ fetchOutcome = "none"
    /\ IdleHistory

Init ==
    /\ data \in Datasets
    /\ activeTab = "overview"
    /\ InitView
    /\ IdleDate
    /\ IdleIngest

CurrentFilter ==
    FilterState(selectedRegion, selectedAreaManager, selectedStore, selectedAggregator,
                selectedMetaCluster, selectedSubject, searchTerm)

\* the option lists the mounted view renders
filterOptions ==
    CASE activeTab = "reviews"  -> DR_filterOptions(data, CurrentFilter)
      [] activeTab = "overview" -> NOP_filterOptions(data, CurrentFilter)
      [] activeTab = "clusters" -> CA_filterOptions(data, CurrentFilter)
      [] OTHER                  -> RA_filterOptions(data, CurrentFilter)

\* DetailedReviews: the memo values of the current render
processedData == DR_processedData(data, CurrentFilter, sortField, sortOrder)

totalPages == DR_totalPages(Len(processedData), rowsPerPage)

paginatedData == DR_paginatedData(processedData, currentPage, rowsPerPage)

\* Tabs onValueChange={setActiveTab}: the view of the new tab mounts with its
\* initial state
setActiveTab(tab) ==
    /\ tab # activeTab
    /\ activeTab' = tab
    /\ period' = "monthly"
    /\ selectedRegion' = ALL
    /\ selectedAreaManager' = ALL
    /\ selectedStore' = ALL
    /\ selectedAggregator' = ALL
    /\ selectedMetaCluster' = ALL
    /\ selectedSubject' = ALL
    /\ searchTerm' = Empty
    /\ sortField' = "date"
    /\ sortOrder' = "desc"
    /\ currentPage' = 1
    /\ rowsPerPage' = 25
    /\ UNCHANGED <<data, dateVars, ingestVars>>

\* a Select offers 'all' and the option list; onValueChange fires on a new value
Offered(options, current) == ({ALL} \cup Range(options)) \ {current}

\* Select onValueChange={setSelectedRegion}
setSelectedRegion ==
    /\ \E value \in Offered(filterOptions.regions, selectedRegion) : selectedRegion' = value
    /\ UNCHANGED <<data, activeTab, period, selectedAreaManager, selectedStore,
                   selectedAggregator, selectedMetaCluster, selectedSubject, searchTerm,
                   sortField, sortOrder, currentPage, rowsPerPage, dateVars, ingestVars>>

\* Select onValueChange={setSelectedAreaManager}
setSelectedAreaManager ==
    /\ \E value \in Offered(filterOptions.areaManagers, selectedAreaManager) : selectedAreaManager' = value
    /\ UNCHANGED <<data, activeTab, period, selectedRegion, selectedStore,
                   selectedAggregator, selectedMetaCluster, selectedSubject, searchTerm,
                   sortField, sortOrder, currentPage, rowsPerPage, dateVars, ingestVars>>

\* Select onValueChange={setSelectedStore}
setSelectedStore ==
    /\ \E value \in Offered(filterOptions.stores, selectedStore) : selectedStore' = value
    /\ UNCHANGED <<data, activeTab, period, selectedRegion, selectedAreaManager,
                   selectedAggregator, selectedMetaCluster, selectedSubject, searchTerm,
                   sortField, sortOrder, currentPage, rowsPerPage, dateVars, ingestVars>>

\* Select onValueChange={setSelectedAggregator}
setSelectedAggregator ==
    /\ \E value \in Offered(filterOptions.aggregators, selectedAggregator) : selectedAggregator' = value
    /\ UNCHANGED <<data, activeTab, period, selectedRegion, selectedAreaManager,
                   selectedStore, selectedMetaCluster, selectedSubject, searchTerm,
                   sortField, sortOrder, currentPage, rowsPerPage, dateVars, ingestVars>>

\* DetailedReviews: Select onValueChange={setSelectedMetaCluster}
setSelectedMetaCluster ==
    /\ activeTab = "reviews"
    /\ \E value \in Offered(filterOptions.metaClusters, selectedMetaCluster) : selectedMetaCluster' = value
    /\ UNCHANGED <<data, activeTab, period, selectedRegion, selectedAreaManager,
                   selectedStore, selectedAggregator, selectedSubject, searchTerm,
                   sortField, sortOrder, currentPage, rowsPerPage, dateVars, ingestVars>>

\* DetailedReviews: Select onValueChange={setSelectedSubject}
setSelectedSubject ==
    /\ activeTab = "reviews"
    /\ \E value \in Offered(filterOptions.subjects, selectedSubject) : selectedSubject' = value
    /\ UNCHANGED <<data, activeTab, period, selectedRegion, selectedAreaManager,
                   selectedStore, selectedAggregator, selectedMetaCluster, searchTerm,
                   sortField, sortOrder, currentPage, rowsPerPage, dateVars, ingestVars>>

\* DetailedReviews: Input onChange={(e) => setSearchTerm(e.target.value)}
setSearchTerm(value) ==
    /\ activeTab = "reviews"
    /\ value # searchTerm
    /\ searchTerm' = value
    /\ UNCHANGED <<data, activeTab, period, selectedRegion, selectedAreaManager,
                   selectedStore, selectedAggregator, selectedMetaCluster, selectedSubject,
                   sortField, sortOrder, currentPage, rowsPerPage, dateVars, ingestVars>>

\* a variant of handleSort that keeps the order when the field changes
handleSort_keepOrder(field) ==
    /\ activeTab = "reviews"
    /\ IF sortField = field
       THEN /\ sortOrder' = (IF sortOrder = "asc" THEN "desc" ELSE "asc")
            /\ sortField' = sortField
       ELSE /\ sortField' = field
            /\ sortOrder' = sortOrder
    /\ currentPage' = 1
    /\ UNCHANGED <<data, activeTab, period, selectedRegion, selectedAreaManager,
                   selectedStore, selectedAggregator, selectedMetaCluster, selectedSubject,
                   searchTerm, rowsPerPage, dateVars, ingestVars>>

\* DetailedReviews handleSort
handleSort(field) ==
    /\ activeTab = "reviews"
    /\ IF sortField = field
       THEN /\ sortOrder' = (IF sortOrder = "asc" THEN "desc" ELSE "asc")
            /\ sortField' = sortField
       ELSE /\ sortField' = field
            /\ sortOrder' = "desc"
    /\ currentPage' = 1
    /\ UNCHANGED <<data, activeTab, period, selectedRegion, selectedAreaManager,
                   selectedStore, selectedAggregator, selectedMetaCluster, selectedSubject,
                   searchTerm, rowsPerPage, dateVars, ingestVars>>

\* DetailedReviews: rows-per-page Select onValueChange
setRowsPerPage(value) ==
    /\ activeTab = "reviews"
    /\ value # rowsPerPage
    /\ rowsPerPage' = value
    /\ currentPage' = 1
    /\ UNCHANGED <<data, activeTab, period, selectedRegion, selectedAreaManager,
                   selectedStore, selectedAggregator, selectedMetaCluster, selectedSubject,
                   searchTerm, sortField, sortOrder, dateVars, ingestVars>>

Max(a, b) == IF a > b THEN a ELSE b

Min(a, b) == IF a < b THEN a ELSE b

\* DetailedReviews: the Previous button (disabled on page 1)
PreviousPage ==
    /\ activeTab = "reviews"
    /\ currentPage # 1
    /\ currentPage' = Max(1, currentPage - 1)
    /\ UNCHANGED <<data, activeTab, period, selectedRegion, selectedAreaManager,
                   selectedStore, selectedAggregator, selectedMetaCluster, selectedSubject,
                   searchTerm, sortField, sortOrder, rowsPerPage, dateVars, ingestVars>>

\* DetailedReviews: the Next button (disabled on the last page and when there
\* is no page)
NextPage ==
    /\ activeTab = "reviews"
    /\ ~(currentPage = totalPages \/ totalPages = 0)
    /\ currentPage' = Min(totalPages, currentPage + 1)
    /\ UNCHANGED <<data, activeTab, period, selectedRegion, selectedAreaManager,
                   selectedStore, selectedAggregator, selectedMetaCluster, selectedSubject,
                   searchTerm, sortField, sortOrder, rowsPerPage, dateVars, ingestVars>>

\* clearAllFilters of the mounted view; DetailedReviews also clears the meta
\* cluster, the subject and the search term and goes to page 1
clearAllFilters ==
    /\ selectedRegion' = ALL
    /\ selectedAreaManager' = ALL
    /\ selectedStore' = ALL
    /\ selectedAggregator' = ALL
    /\ IF activeTab = "reviews"
       THEN /\ selectedMetaCluster' = ALL
            /\ selectedSubject' = ALL
            /\ searchTerm' = Empty
            /\ currentPage' = 1
       ELSE UNCHANGED <<selectedMetaCluster, selectedSubject, searchTerm, currentPage>>
    /\ UNCHANGED <<data, activeTab, period, sortField, sortOrder, rowsPerPage,
                   dateVars, ingestVars>>

\* the period Select of the overview, regions and clusters views
setPeriod(value) ==
    /\ activeTab # "reviews"
    /\ value # period
    /\ period' = value
    /\ UNCHANGED <<data, activeTab, selectedRegion, selectedAreaManager, selectedStore,
                   selectedAggregator, selectedMetaCluster, selectedSubject, searchTerm,
                   sortField, sortOrder, currentPage, rowsPerPage, dateVars, ingestVars>>

Next ==
    \/ \E tab \in Tabs : setActiveTab(tab)
    \/ setSelectedRegion
    \/ setSelectedAreaManager
    \/ setSelectedStore
    \/ setSelectedAggregator
    \/ setSelectedMetaCluster
    \/ setSelectedSubject
    \/ \E value \in SearchTerms : setSearchTerm(value)
    \/ \E field \in SortFields : handleSort(field)
    \/ \E value \in RowsPerPageChoices : setRowsPerPage(value)
    \/ PreviousPage
    \/ NextPage
    \/ clearAllFilters
    \/ \E value \in Periods : setPeriod(value)

Spec == Init /\ [][Next]_vars

\* the meta labels of the trend datasets
MaxTrendKeys == 5

\* the record of meta label 'K' k: store p, region N for the first two labels
\* and S for the others, subject f, aggregator w, manager a, cluster c
TrendRecord(k, date) ==
    Review(<<112>>, IF k <= 2 THEN <<78>> ELSE <<83>>, date, <<65, 98>>,
           <<102>>, <<119>>, <<97>>, <<99>>, <<75>> \o NatToString(k))

\* 01/06/23 and 15/06/23: two days and two weeks of one month
EarlyDate == <<48, 49, 47, 48, 54, 47, 50, 51>>
LateDate == <<49, 53, 47, 48, 54, 47, 50, 51>>

\* the records of one label: one early (E), one late (L), two late (LL) or
\* one early and one late (EL)
TrendPatterns == {"E", "L", "LL", "EL"}

TrendRecordsOf(k, pattern) ==
    CASE pattern = "E" -> <<TrendRecord(k, EarlyDate)>>
      [] pattern = "L" -> <<TrendRecord(k, LateDate)>>
      [] pattern = "EL" -> <<TrendRecord(k, EarlyDate), TrendRecord(k, LateDate)>>
      [] OTHER         -> <<TrendRecord(k, LateDate), TrendRecord(k, LateDate)>>

RECURSIVE TrendDataset(_, _)
TrendDataset(patterns, k) ==
    IF k = 0 THEN <<>>
    ELSE TrendDataset(patterns, k - 1) \o TrendRecordsOf(k, patterns[k])

\* the datasets the overview's trend analysis is run on
TrendDatasets ==
    {TrendDataset(patterns, MaxTrendKeys) : patterns \in [1..MaxTrendKeys -> TrendPatterns]}

\* the overview mounted with a trend dataset
InitTrend ==
    /\ data \in TrendDatasets
    /\ activeTab = "overview"
    /\ InitView
    /\ IdleDate
    /\ IdleIngest

NextTrend ==
    \/ setSelectedRegion
    \/ clearAllFilters
    \/ \E value \in Periods : setPeriod(value)

SpecTrend == InitTrend /\ [][NextTrend]_vars

\* the trend analysis the overview renders
trendAnalysis == NOP_trendAnalysis(NOP_processedData(data, CurrentFilter), period)

InitDate ==
    /\ dateIn \in DateInputs
    /\ dateOut = NotResolved
    /\ data = <<>>
    /\ activeTab = "overview"
    /\ InitView
    /\ IdleIngest

NextDate == ResolveDate

SpecDate == InitDate /\ [][NextDate]_vars

(***************************************************************************)
(* Ingestion: FileUpload.handleLoadProcessedFile and                       *)
(* BucketFileManager.handleFileSelect, extended and minimal schema         *)
(***************************************************************************)

ExtendedHeaders ==
    <<"S.No", "Store Name", "Region", "Date", "Remark", "Subject", "Aggregator",
      "Month", "Area Manger Name", "LLM_Cluster_Label", "LLM_Meta_Label">>

\* an extended sheet whose cluster column is absent
ExtendedHeadersNoCluster ==
    <<"S.No", "Store Name", "Region", "Date", "Remark", "Subject", "Aggregator",
      "Month", "Area Manger Name", "LLM_Meta_Label">>

MinimalHeaders == <<"City", "Reviews", "LLM_Cluster_Label", "LLM_Meta_Label">>

\* headers.indexOf(name), zero based, -1 when absent
indexOf(headers, name) ==
    IF \E i \in DOMAIN headers : headers[i] = name
    THEN (CHOOSE i \in DOMAIN headers :
              headers[i] = name /\ \A j \in 1..(i - 1) : headers[j] # name) - 1
    ELSE -1

\* row[headers.indexOf(name)] || '' : an absent column, an empty cell and ''
\* all give ''
Cell(row, headers, name) ==
    LET i == indexOf(headers, name)
        v == IF i >= 0 /\ i < Len(row) THEN row[i + 1] ELSE Undefined
    IN  IF Truthy(v) THEN v ELSE Empty

\* FileUpload.handleLoadProcessedFile (extended schema): map, then filter
FU_processExtended(sh) ==
    LET mapped == [i \in DOMAIN sh.rows |->
            Review(Cell(sh.rows[i], sh.headers, "Store Name"),
                   Cell(sh.rows[i], sh.headers, "Region"),
                   Cell(sh.rows[i], sh.headers, "Date"),
                   Cell(sh.rows[i], sh.headers, "Remark"),
                   Cell(sh.rows[i], sh.headers, "Subject"),
                   Cell(sh.rows[i], sh.headers, "Aggregator"),
                   Cell(sh.rows[i], sh.headers, "Area Manger Name"),
                   Cell(sh.rows[i], sh.headers, "LLM_Cluster_Label"),
                   Cell(sh.rows[i], sh.headers, "LLM_Meta_Label"))]
    IN  SelectSeq(mapped, LAMBDA item :
            Truthy(item.StoreName) /\ Truthy(item.Remark) /\ Truthy(item.LLM_Cluster_Label))

\* BucketFileManager.handleFileSelect (extended schema): map, then filter
BFM_processExtended(sh) ==
    LET mapped == [i \in DOMAIN sh.rows |->
            Review(Cell(sh.rows[i], sh.headers, "Store Name"),
                   Cell(sh.rows[i], sh.headers, "Region"),
                   Cell(sh.rows[i], sh.headers, "Date"),
                   Cell(sh.rows[i], sh.headers, "Remark"),
                   Cell(sh.rows[i], sh.headers, "Subject"),
                   Cell(sh.rows[i], sh.headers, "Aggregator"),
                   Cell(sh.rows[i], sh.headers, "Area Manger Name"),
                   Cell(sh.rows[i], sh.headers, "LLM_Cluster_Label"),
                   Cell(sh.rows[i], sh.headers, "LLM_Meta_Label"))]
    IN  SelectSeq(mapped, LAMBDA item :
            Truthy(item.StoreName) /\ Truthy(item.Remark) /\ Truthy(item.LLM_Cluster_Label))

\* FileUpload.handleLoadProcessedFile (minimal schema): map, then filter
FU_processMinimal(sh) ==
    LET mapped == [i \in DOMAIN sh.rows |->
            [City              |-> Cell(sh.rows[i], sh.headers, "City"),
             Reviews           |-> Cell(sh.rows[i], sh.headers, "Reviews"),
             LLM_Cluster_Label |-> Cell(sh.rows[i], sh.headers, "LLM_Cluster_Label"),
             LLM_Meta_Label    |-> Cell(sh.rows[i], sh.headers, "LLM_Meta_Label")]]
    IN  SelectSeq(mapped, LAMBDA item : Truthy(item.City) /\ Truthy(item.Reviews))

\* BucketFileManager.handleFileSelect (minimal schema): map, then filter
BFM_processMinimal(sh) ==
    LET mapped == [i \in DOMAIN sh.rows |->
            [City              |-> Cell(sh.rows[i], sh.headers, "City"),
             Reviews           |-> Cell(sh.rows[i], sh.headers, "Reviews"),
             LLM_Cluster_Label |-> Cell(sh.rows[i], sh.headers, "LLM_Cluster_Label"),
             LLM_Meta_Label    |-> Cell(sh.rows[i], sh.headers, "LLM_Meta_Label")]]
    IN  SelectSeq(mapped, LAMBDA item : Truthy(item.City) /\ Truthy(item.Reviews))

IngestPaths == {"upload-extended", "bucket-extended", "upload-minimal", "bucket-minimal"}

IsExtended(path) == path \in {"upload-extended", "bucket-extended"}

processSheet(path, sh) ==
    CASE path = "upload-extended" -> FU_processExtended(sh)
      [] path = "bucket-extended" -> BFM_processExtended(sh)
      [] path = "upload-minimal"  -> FU_processMinimal(sh)
      [] OTHER                    -> BFM_processMinimal(sh)

\* a cell is empty or holds the text 'x'
CellValues == {Undefined, <<120>>}

\* the rows of an extended sheet: store, remark and cluster cells vary
ExtendedRows ==
    {<<<<49>>, store, <<78>>, <<49, 53, 47, 48, 54, 47, 50, 51>>, remark, <<102>>,
       <<119>>, <<74, 117, 110>>, <<97>>, cluster, <<81>>>> :
        store \in CellValues, remark \in CellValues, cluster \in CellValues}

\* the rows of a sheet without the cluster column
ExtendedRowsNoCluster ==
    {<<<<49>>, store, <<78>>, <<49, 53, 47, 48, 54, 47, 50, 51>>, remark, <<102>>,
       <<119>>, <<74, 117, 110>>, <<97>>, <<81>>>> :
        store \in CellValues, remark \in CellValues}

\* the rows of a minimal sheet: city, review and cluster cells vary
MinimalRows ==
    {<<city, review, cluster, <<81>>>> :
        city \in CellValues, review \in CellValues, cluster \in CellValues}

\* the most data rows of a sheet
MaxRows == 2

SheetsFor(path) ==
    IF IsExtended(path)
    THEN {[headers |-> ExtendedHeaders, rows |-> rows] :
              rows \in SeqsUpTo(ExtendedRows, MaxRows)}
         \cup {[headers |-> ExtendedHeadersNoCluster, rows |-> rows] :
                  rows \in SeqsUpTo(ExtendedRowsNoCluster, MaxRows)}
    ELSE {[headers |-> MinimalHeaders, rows |-> rows] :
              rows \in SeqsUpTo(MinimalRows, MaxRows)}

\* QSRDashboard before a load: no data, one loader about to decode one sheet
InitIngest ==
    /\ data = <<>>
    /\ ingestPath \in IngestPaths
    /\ sheet \in SheetsFor(ingestPath)
    /\ loading = FALSE
    /\ lastToast = "none"
    /\ fetchOutcome = "none"
    /\ IdleHistory
    /\ activeTab = "overview"
    /\ InitView
    /\ IdleDate

\* handleLoadProcessedFile / handleFileSelect up to the first await
StartLoad ==
    /\ ~loading
    /\ lastToast = "none"
    /\ loading' = TRUE
    /\ UNCHANGED <<data, activeTab, viewVars, dateVars, sheet, ingestPath, lastToast,
                   fetchOutcome, historyVars>>

\* the download, fetch and decode succeeded: map, filter, onFileUpload(processedData)
\* (handleFileUpload is setData), the success toast, finally setLoading(false)
FinishLoad ==
    /\ loading
    /\ fetchOutcome' = "ok"
    /\ data' = processSheet(ingestPath, sheet)
    /\ lastToast' = "loaded"
    /\ loading' = FALSE
    /\ UNCHANGED <<activeTab, viewVars, dateVars, sheet, ingestPath, historyVars>>

\* an await threw (getDownloadUrl or downloadFromBucket on a response that is
\* not ok, fetch on a network failure, XLSX.read on bytes it rejects): the
\* catch raises the failure toast, finally setLoading(false)
FailLoad ==
    /\ loading
    /\ fetchOutcome' \in {"url-failed", "fetch-rejected", "decode-threw"}
    /\ lastToast' = "failed"
    /\ loading' = FALSE
    /\ UNCHANGED <<data, activeTab, viewVars, dateVars, sheet, ingestPath, historyVars>>

\* what XLSX.read and sheet_to_json make of the body of an error response
\* when they read it as text: one row of one cell
ErrorBodySheet == [headers |-> <<"<Error>">>, rows |-> <<<<<<60, 47, 69, 62>>>>>>]

\* FileUpload.handleLoadProcessedFile: fetch(download_url) resolved with an
\* error status, which is not looked at; the body is decoded (XLSX.read either
\* throws, which is FailLoad, or reads it as text), mapped and filtered,
\* onFileUpload(processedData), the success toast, finally setLoading(false)
LoadErrorBody ==
    /\ loading
    /\ ingestPath \in {"upload-extended", "upload-minimal"}
    /\ fetchOutcome' = "error-status"
    /\ data' = processSheet(ingestPath, ErrorBodySheet)
    /\ lastToast' = "loaded"
    /\ loading' = FALSE
    /\ UNCHANGED <<activeTab, viewVars, dateVars, sheet, ingestPath, historyVars>>

NextIngest == StartLoad \/ FinishLoad \/ FailLoad \/ LoadErrorBody

SpecIngest == InitIngest /\ [][NextIngest]_vars

(***************************************************************************)
(* FileUpload: the upload history and the status checks                    *)
(***************************************************************************)

\* UploadResponse.file_id, UploadResponse.file_name and
\* StatusResponse.processed_file_name of job j: 'i', 'n', 'p' and its number
FileId(j) == <<105>> \o NatToString(j)
FileName(j) == <<110>> \o NatToString(j)
ProcessedFileName(j) == <<112>> \o NatToString(j)

\* the job the service keeps under a file name
JobOfName(name) == CHOOSE j \in Jobs : FileName(j) = name

\* handleUpload up to `await uploadFile(file)`: setUploading(true)
handleUpload_begin ==
    /\ nextJob <= MaxJobs
    /\ uploading' = TRUE
    /\ uploadsInFlight' = uploadsInFlight \cup {nextJob}
    /\ nextJob' = nextJob + 1
    /\ UNCHANGED <<data, activeTab, viewVars, dateVars, sheet, ingestPath, loading,
                   fetchOutcome, lastToast, uploadedFiles, service, checks, failures>>

\* uploadFile resolved: the service created the job; the entry is prepended
\* with setUploadedFiles(prev => [newFile, ...prev]), the toast, finally
\* setUploading(false)
handleUpload_resolve(j) ==
    /\ j \in uploadsInFlight
    /\ uploadsInFlight' = uploadsInFlight \ {j}
    /\ service' = [service EXCEPT ![j] = "processing"]
    /\ uploadedFiles' = <<[id |-> FileId(j), name |-> FileName(j), status |-> "processing",
                           processedFileName |-> Undefined]>> \o uploadedFiles
    /\ lastToast' = "upload-successful"
    /\ uploading' = FALSE
    /\ UNCHANGED <<data, activeTab, viewVars, dateVars, sheet, ingestPath, loading,
                   fetchOutcome, nextJob, checks, failures>>

\* uploadFile rejected: the catch raises the toast, finally setUploading(false)
handleUpload_reject(j) ==
    /\ j \in uploadsInFlight
    /\ uploadsInFlight' = uploadsInFlight \ {j}
    /\ lastToast' = "upload-failed"
    /\ uploading' = FALSE
    /\ UNCHANGED <<data, activeTab, viewVars, dateVars, sheet, ingestPath, loading,
                   fetchOutcome, uploadedFiles, nextJob, service, checks, failures>>

\* the ingestion service finishes a job, with one outcome for good
ServiceFinish(j, outcome) ==
    /\ service[j] = "processing"
    /\ service' = [service EXCEPT ![j] = outcome]
    /\ UNCHANGED <<data, activeTab, viewVars, dateVars, sheet, ingestPath, loading,
                   fetchOutcome, lastToast, uploadedFiles, uploading, uploadsInFlight, nextJob, checks,
                   failures>>

\* uploadedFiles.filter(f => f.status === 'processing')
processingFiles == SelectSeq(uploadedFiles, LAMBDA f : f.status = "processing")

\* a loop is over when it has awaited every file of its snapshot
CheckOver(c) == checks[c].next > Len(checks[c].files)

\* checkProcessingStatus up to its first await: the snapshot of the rendered
\* list, the first checkStatus(file.name) sent
checkProcessingStatus(c) ==
    /\ CheckOver(c)
    /\ checks' = [checks EXCEPT ![c] = [files |-> processingFiles, next |-> 1,
                                        response |-> "none"]]
    /\ UNCHANGED <<data, activeTab, viewVars, dateVars, sheet, ingestPath, loading,
                   fetchOutcome, lastToast, uploadedFiles, uploading, uploadsInFlight, nextJob, service,
                   failures>>

\* a variant of the interval callback that keeps the list of the first render
\* (an effect that is not re-run when uploadedFiles changes)
PollTick_firstRenderList ==
    /\ SelectSeq(<<>>, LAMBDA f : f.status = "processing") # <<>>
    /\ \E c \in 1..MaxChecks : checkProcessingStatus(c)

\* the setInterval callback: checks only when a file is processing
PollTick ==
    /\ processingFiles # <<>>
    /\ \E c \in 1..MaxChecks : checkProcessingStatus(c)

\* the Refresh Status button, rendered when the history is not empty:
\* onClick={checkProcessingStatus}
ManualRefresh ==
    /\ uploadedFiles # <<>>
    /\ \E c \in 1..MaxChecks : checkProcessingStatus(c)

\* the service answers the pending checkStatus of loop c with the state of the
\* job, or the request fails
StatusAnswered(c) ==
    /\ ~CheckOver(c)
    /\ checks[c].response = "none"
    /\ \/ /\ checks' = [checks EXCEPT ![c].response =
                             service[JobOfName(checks[c].files[checks[c].next].name)]]
          /\ UNCHANGED failures
       \/ /\ failures < MaxFailures
          /\ failures' = failures + 1
          /\ checks' = [checks EXCEPT ![c].response = "error"]
    /\ UNCHANGED <<data, activeTab, viewVars, dateVars, sheet, ingestPath, loading,
                   fetchOutcome, lastToast, uploadedFiles, uploading, uploadsInFlight, nextJob, service>>

\* a variant of applyStatus that keeps only the entries the loop's file list
\* could hold: the entries at and after the checked file
applyStatus_fromSnapshot(prev, file, status) ==
    LET at   == CHOOSE i \in DOMAIN prev : prev[i].id = file.id
        kept == SubSeq(prev, at, Len(prev))
    IN  [i \in DOMAIN kept |->
            IF kept[i].id = file.id
            THEN [kept[i] EXCEPT !.status = status.status,
                                 !.processedFileName = status.processed_file_name]
            ELSE kept[i]]

\* setUploadedFiles(prev => prev.map(f => f.id === file.id ? {...f, status,
\* processedFileName} : f))
applyStatus(prev, file, status) ==
    [i \in DOMAIN prev |->
        IF prev[i].id = file.id
        THEN [prev[i] EXCEPT !.status = status.status,
                             !.processedFileName = status.processed_file_name]
        ELSE prev[i]]

\* the StatusResponse of a job in the state st
StatusResponse(name, st) ==
    [status |-> st,
     processed_file_name |->
         IF st = "completed" THEN ProcessedFileName(JobOfName(name)) ELSE Undefined]

\* a variant of StatusDelivered without the test status.status !== 'processing':
\* every answered status is applied to the list
StatusDelivered_applyAlways(c) ==
    /\ ~CheckOver(c)
    /\ checks[c].response # "none"
    /\ LET file   == checks[c].files[checks[c].next]
           status == StatusResponse(file.name, checks[c].response)
       IN  IF checks[c].response # "error"
           THEN /\ uploadedFiles' = applyStatus(uploadedFiles, file, status)
                /\ lastToast' = IF status.status = "completed"
                                THEN "processing-completed" ELSE "processing-failed"
           ELSE UNCHANGED <<uploadedFiles, lastToast>>
    /\ checks' = [checks EXCEPT ![c].next = @ + 1, ![c].response = "none"]
    /\ UNCHANGED <<data, activeTab, viewVars, dateVars, sheet, ingestPath, loading,
                   fetchOutcome, uploading, uploadsInFlight, nextJob, service, failures>>

\* the awaited checkStatus of loop c settles: a status other than processing
\* is applied to the list and toasted, a rejection is logged; the loop goes on
\* to its next file
StatusDelivered(c) ==
    /\ ~CheckOver(c)
    /\ checks[c].response # "none"
    /\ LET file   == checks[c].files[checks[c].next]
           status == StatusResponse(file.name, checks[c].response)
       IN  IF checks[c].response \in {"completed", "failed"}
           THEN /\ uploadedFiles' = applyStatus(uploadedFiles, file, status)
                /\ lastToast' = IF status.status = "completed"
                                THEN "processing-completed" ELSE "processing-failed"
           ELSE UNCHANGED <<uploadedFiles, lastToast>>
    /\ checks' = [checks EXCEPT ![c].next = @ + 1, ![c].response = "none"]
    /\ UNCHANGED <<data, activeTab, viewVars, dateVars, sheet, ingestPath, loading,
                   fetchOutcome, uploading, uploadsInFlight, nextJob, service, failures>>

\* FileUpload mounted with no dataset loaded
InitHistory ==
    /\ data = <<>>
    /\ activeTab = "overview"
    /\ InitView
    /\ IdleDate
    /\ IdleIngest

NextHistory ==
    \/ handleUpload_begin
    \/ \E j \in Jobs : handleUpload_resolve(j)
    \/ \E j \in Jobs : handleUpload_reject(j)
    \/ \E j \in Jobs, outcome \in {"completed", "failed"} : ServiceFinish(j, outcome)
    \/ PollTick
    \/ ManualRefresh
    \/ \E c \in 1..MaxChecks : StatusAnswered(c)
    \/ \E c \in 1..MaxChecks : StatusDelivered(c)

SpecHistory == InitHistory /\ [][NextHistory]_vars

\* the interval fires every 30 seconds while the component is mounted, the
\* service answers every request and every answer is delivered
FairHistory ==
    /\ WF_vars(PollTick)
    /\ \A c \in 1..MaxChecks : WF_vars(StatusAnswered(c)) /\ WF_vars(StatusDelivered(c))

SpecHistoryFair == SpecHistory /\ FairHistory

(***************************************************************************)
(* What the properties speak of                                            *)
(***************************************************************************)

IsNumericText(t) == t # <<>> /\ \A i \in 1..Len(t) : IsDigit(t[i])

RECURSIVE TextValue(_)
TextValue(t) == IF t = <<>> THEN 0 ELSE TextValue(SubSeq(t, 1, Len(t) - 1)) * 10 + (t[Len(t)] - 48)

IsLeapYear(y) == (y % 4 = 0 /\ y % 100 # 0) \/ y % 400 = 0

DaysInMonth(y, m) ==
    IF m = 2 THEN (IF IsLeapYear(y) THEN 29 ELSE 28)
    ELSE IF m \in {4, 6, 9, 11} THEN 30 ELSE 31

\* the three parts of a day-first date text, when it has exactly three
DayPart(raw) == split(raw, Slash)[1]

MonthPart(raw) == split(raw, Slash)[2]

YearPart(raw) == split(raw, Slash)[3]

\* day, month and year are written in digits
NumericDate(raw) ==
    /\ Len(split(raw, Slash)) = 3
    /\ IsNumericText(DayPart(raw))
    /\ IsNumericText(MonthPart(raw))
    /\ IsNumericText(YearPart(raw))

\* the full year a year text stands for: the two-digit rule, else the number
YearMeant(yearText) ==
    IF Len(yearText) = 2
    THEN (IF TextValue(yearText) < 50 THEN 2000 + TextValue(yearText)
          ELSE 1900 + TextValue(yearText))
    ELSE TextValue(yearText)

\* dateRaw names a day of the calendar, day first
ValidCalendarDate(raw) ==
    /\ NumericDate(raw)
    /\ TextValue(MonthPart(raw)) \in 1..12
    /\ TextValue(DayPart(raw)) >= 1
    /\ TextValue(DayPart(raw)) <= DaysInMonth(YearMeant(YearPart(raw)), TextValue(MonthPart(raw)))

\* r passes the six dimension selections of F
MatchesDimensions(r, F) ==
    /\ F.selectedRegion \in {ALL, r.Region}
    /\ F.selectedAreaManager \in {ALL, r.AreaMangerName}
    /\ F.selectedStore \in {ALL, r.StoreName}
    /\ F.selectedAggregator \in {ALL, r.Aggregator}
    /\ F.selectedMetaCluster \in {ALL, r.LLM_Meta_Label}
    /\ F.selectedSubject \in {ALL, r.Subject}

\* r passes the search term of F, compared without regard to case
MatchesSearch(r, F) ==
    F.searchTerm = Empty \/ includes(toLowerCase(r.Remark), toLowerCase(F.searchTerm))

\* the positions of the dataset that pass the selections (and the search)
Passing(R, F) == {i \in DOMAIN R : MatchesDimensions(R[i], F) /\ MatchesSearch(R[i], F)}

\* the records of a processed list, without the derived fields
Items(processed) == [i \in DOMAIN processed |-> processed[i].item]

RECURSIVE SumComplaints(_)
SumComplaints(series) ==
    IF series = <<>> THEN 0 ELSE Head(series).complaints + SumComplaints(Tail(series))

\* the tally table counts r's key as often as passing records carry it
Tallied(table, R, F, key(_), r) ==
    \E b \in DOMAIN table :
        /\ table[b].key = OrUnknown(key(r))
        /\ table[b].count =
               Cardinality({j \in Passing(R, F) : OrUnknown(key(R[j])) = OrUnknown(key(r))})

MetaOf(r) == r.LLM_Meta_Label

ClusterOf(r) == r.LLM_Cluster_Label

RegionOf(r) == r.Region

\* F with the selections of the dimensions from position k of the cascade
\* onwards (1 region .. 6 subject) put back to 'all'
UpstreamOf(F, k) ==
    [selectedRegion      |-> IF k <= 1 THEN ALL ELSE F.selectedRegion,
     selectedAreaManager |-> IF k <= 2 THEN ALL ELSE F.selectedAreaManager,
     selectedStore       |-> IF k <= 3 THEN ALL ELSE F.selectedStore,
     selectedAggregator  |-> IF k <= 4 THEN ALL ELSE F.selectedAggregator,
     selectedMetaCluster |-> IF k <= 5 THEN ALL ELSE F.selectedMetaCluster,
     selectedSubject     |-> IF k <= 6 THEN ALL ELSE F.selectedSubject,
     searchTerm          |-> F.searchTerm]

(***************************************************************************)
(* Properties                                                              *)
(***************************************************************************)

\* C1: in the review browser every step that selects a new value for one of the
\* six filter dimensions, edits the search term or clicks a sort column ends
\* with currentPage = 1.
C1_FilterSearchSortResetsPage ==
    [][(/\ activeTab = "reviews"
        /\ activeTab' = "reviews"
        /\ \/ selectedRegion' # selectedRegion
           \/ selectedAreaManager' # selectedAreaManager
           \/ selectedStore' # selectedStore
           \/ selectedAggregator' # selectedAggregator
           \/ selectedMetaCluster' # selectedMetaCluster
           \/ selectedSubject' # selectedSubject
           \/ searchTerm' # searchTerm
           \/ sortField' # sortField
           \/ sortOrder' # sortOrder)
       => currentPage' = 1]_vars

\* C2: the option list of every dimension D is the one computed with D and the
\* dimensions after D put back to 'all': it depends on the upstream selections
\* only (review browser, overview and clusters views).
C2_OptionsDependOnUpstreamOnly ==
    LET F == CurrentFilter
    IN  /\ activeTab = "reviews" =>
            /\ DR_filterOptions(data, F).regions
                   = DR_filterOptions(data, UpstreamOf(F, 1)).regions
            /\ DR_filterOptions(data, F).areaManagers
                   = DR_filterOptions(data, UpstreamOf(F, 2)).areaManagers
            /\ DR_filterOptions(data, F).stores
                   = DR_filterOptions(data, UpstreamOf(F, 3)).stores
            /\ DR_filterOptions(data, F).aggregators
                   = DR_filterOptions(data, UpstreamOf(F, 4)).aggregators
            /\ DR_filterOptions(data, F).metaClusters
                   = DR_filterOptions(data, UpstreamOf(F, 5)).metaClusters
            /\ DR_filterOptions(data, F).subjects
                   = DR_filterOptions(data, UpstreamOf(F, 6)).subjects
        /\ activeTab = "overview" =>
            /\ NOP_filterOptions(data, F).regions
                   = NOP_filterOptions(data, UpstreamOf(F, 1)).regions
            /\ NOP_filterOptions(data, F).areaManagers
                   = NOP_filterOptions(data, UpstreamOf(F, 2)).areaManagers
            /\ NOP_filterOptions(data, F).stores
                   = NOP_filterOptions(data, UpstreamOf(F, 3)).stores
            /\ NOP_filterOptions(data, F).aggregators
                   = NOP_filterOptions(data, UpstreamOf(F, 4)).aggregators
        /\ activeTab = "clusters" =>
            /\ CA_filterOptions(data, F).regions
                   = CA_filterOptions(data, UpstreamOf(F, 1)).regions
            /\ CA_filterOptions(data, F).areaManagers
                   = CA_filterOptions(data, UpstreamOf(F, 2)).areaManagers
            /\ CA_filterOptions(data, F).stores
                   = CA_filterOptions(data, UpstreamOf(F, 3)).stores
            /\ CA_filterOptions(data, F).aggregators
                   = CA_filterOptions(data, UpstreamOf(F, 4)).aggregators

\* C3: a record whose dateRaw is no calendar date and that passes the dimension
\* selections and the search term is in the review browser's list, and is
\* counted in the cluster, meta-cluster and region tallies.
C3_UnparsableDateStaysVisible ==
    LET F == CurrentFilter
    IN  \A i \in Passing(data, F) :
            ~ValidCalendarDate(data[i].Date) =>
                /\ activeTab = "reviews" =>
                       \E k \in DOMAIN processedData : processedData[k].item = data[i]
                /\ activeTab = "clusters" =>
                       /\ Tallied(CA_metaClustersData(CA_processedData(data, F)),
                                  data, F, MetaOf, data[i])
                       /\ Tallied(CA_llmClustersData(CA_processedData(data, F)),
                                  data, F, ClusterOf, data[i])
                /\ activeTab = "cities" =>
                       Tallied(RA_regionalData(RA_processedData(data, F)),
                               data, F, RegionOf, data[i])

\* C4: in the overview building the time series raises no error, and its bucket
\* counts sum to the number of passing records whose dateRaw is a calendar date.
C4_TimeSeriesCountsValidDates ==
    activeTab = "overview" =>
        LET F  == CurrentFilter
            ts == NOP_timeSeriesData(NOP_processedData(data, F), period)
        IN  /\ ~ts.thrown
            /\ SumComplaints(ts.series)
                   = Cardinality({i \in Passing(data, F) : ValidCalendarDate(data[i].Date)})

\* C5: after a load, on every ingestion path, every record of the dataset has a
\* non-empty store / location name, review text and cluster label.
C5_AdmittedRecordsComplete ==
    lastToast = "loaded" =>
        \A i \in DOMAIN data :
            /\ data[i].LLM_Cluster_Label # Empty
            /\ IF IsExtended(ingestPath)
               THEN data[i].StoreName # Empty /\ data[i].Remark # Empty
               ELSE data[i].City # Empty /\ data[i].Reviews # Empty

\* '15/06/23', '15/06/85', '31/03/2024', '01/04/2024'
Date_15_06_23 == <<49, 53, 47, 48, 54, 47, 50, 51>>

Date_15_06_85 == <<49, 53, 47, 48, 54, 47, 56, 53>>

Date_31_03_2024 == <<51, 49, 47, 48, 51, 47, 50, 48, 50, 52>>

Date_01_04_2024 == <<48, 49, 47, 48, 52, 47, 50, 48, 50, 52>>

\* C6: in every view that parses dates (review browser, overview, clusters,
\* regions) a date written in digits with a two-digit year yy resolves to the
\* year 2000 + yy when yy < 50 and to 1900 + yy when yy >= 50; 15/06/23 gives
\* 2023 and 15/06/85 gives 1985.
C6_TwoDigitYearRule ==
    (dateOut.done /\ NumericDate(dateIn) /\ Len(YearPart(dateIn)) = 2) =>
        LET yy   == TextValue(YearPart(dateIn))
            full == IF yy < 50 THEN 2000 + yy ELSE 1900 + yy
        IN  /\ dateOut.reviews.kind = "date"
            /\ getFullYear(dateOut.reviews) = full
            /\ dateOut.clusters.parsedDate.kind = "date"
            /\ getFullYear(dateOut.clusters.parsedDate) = full
            /\ dateOut.regions.parsedDate.kind = "date"
            /\ getFullYear(dateOut.regions.parsedDate) = full
            /\ dateOut.overview.fullYear = Num(full)
            /\ dateOut.overview.dateObj.kind = "date"
            /\ getFullYear(dateOut.overview.dateObj) = full
            /\ dateIn = Date_15_06_23 => getFullYear(dateOut.reviews) = 2023
            /\ dateIn = Date_15_06_85 => getFullYear(dateOut.overview.dateObj) = 1985

\* C6 witness: 15/06/85 has been resolved, to 1985, by the review browser and
\* by the overview
C6_Witness ==
    /\ dateOut.done
    /\ dateIn = Date_15_06_85
    /\ getFullYear(dateOut.reviews) = 1985
    /\ getFullYear(dateOut.overview.dateObj) = 1985

\* C7: a date written in digits with a four-digit year YYYY resolves to the
\* year YYYY in every view: the overview's date, fiscal year and buckets use
\* the same year as the review browser, clusters and regions views.
C7_FourDigitYearSameInEveryView ==
    (dateOut.done /\ NumericDate(dateIn) /\ Len(YearPart(dateIn)) = 4) =>
        LET yyyy == TextValue(YearPart(dateIn))
        IN  /\ getFullYear(dateOut.reviews) = yyyy
            /\ getFullYear(dateOut.clusters.parsedDate) = yyyy
            /\ getFullYear(dateOut.regions.parsedDate) = yyyy
            /\ dateOut.overview.fullYear = Num(yyyy)
            /\ getFullYear(dateOut.overview.dateObj) = getFullYear(dateOut.reviews)
            /\ getFullYear(dateOut.overview.monthStart) = getFullYear(dateOut.reviews)
            /\ dateOut.overview.financialYear
                   = Num(IF TextValue(MonthPart(dateIn)) >= 4 THEN yyyy ELSE yyyy - 1)

\* the label FY<start>-<two digits of start + 1>
FiscalLabel(start) ==
    <<70, 89>> \o NatToString(start) \o <<45>>
        \o <<48 + (((start + 1) % 100) \div 10), 48 + ((start + 1) % 10)>>

\* 'FY2023-24', 'FY2024-25'
FY2023_24 == <<70, 89, 50, 48, 50, 51, 45, 50, 52>>

FY2024_25 == <<70, 89, 50, 48, 50, 52, 45, 50, 53>>

\* C8: for a record with a parsable date of resolved year Y and month M in
\* 1..12 (year written with two or with four digits) the fiscal-year label of
\* the clusters and regions views is FY<Y>-<(Y+1) mod 100> when M >= 4 and
\* FY<Y-1>-<Y mod 100> when M <= 3, the second part in two digits; 31/03/2024
\* gives FY2023-24 and 01/04/2024 gives FY2024-25; the day plays no part.
C8_FiscalYearLabel ==
    (/\ dateOut.done
     /\ NumericDate(dateIn)
     /\ Len(YearPart(dateIn)) \in {2, 4}
     /\ TextValue(MonthPart(dateIn)) \in 1..12) =>
        LET Y     == getFullYear(dateOut.clusters.parsedDate)
            M     == TextValue(MonthPart(dateIn))
            label == IF M >= 4 THEN FiscalLabel(Y) ELSE FiscalLabel(Y - 1)
        IN  /\ dateOut.clusters.parsedDate.kind = "date"
            /\ dateOut.clusters.financialYear = label
            /\ dateOut.regions.financialYear = label
            /\ dateIn = Date_31_03_2024 => dateOut.clusters.financialYear = FY2023_24
            /\ dateIn = Date_01_04_2024 => dateOut.regions.financialYear = FY2024_25

\* C8 witness: 31/03/2024 has been resolved and labelled FY2023-24
C8_Witness ==
    /\ dateOut.done
    /\ dateIn = Date_31_03_2024
    /\ dateOut.clusters.financialYear = FY2023_24
    /\ dateOut.regions.financialYear = FY2023_24

\* C9: the review browser's filtered list holds exactly the records that pass
\* the six dimension selections ('all' or equal) and, when a search term is
\* set, whose remark contains it without regard to case.
C9_FilteredSetExact ==
    activeTab = "reviews" =>
        LET F == CurrentFilter
        IN  /\ \A i \in DOMAIN data :
                   i \in Passing(data, F) <=>
                       \E k \in DOMAIN processedData : processedData[k].item = data[i]
            /\ Len(processedData) = Cardinality(Passing(data, F))

\* the filtered records of the review browser and of the overview, as plain records
DR_filtered(R, F, field, order) == Items(DR_processedData(R, F, field, order))

NOP_filtered(R, F) == Items(NOP_processedData(R, F))

\* C10: filtering is idempotent: filtering the already filtered list with the
\* same filter state gives the same list, same records in the same order
\* (review browser with its sort, and overview).
C10_FilterIdempotent ==
    LET F == CurrentFilter
    IN  /\ activeTab = "reviews" =>
               DR_filtered(DR_filtered(data, F, sortField, sortOrder),
                               F, sortField, sortOrder)
                   = DR_filtered(data, F, sortField, sortOrder)
        /\ activeTab = "overview" =>
               NOP_filtered(NOP_filtered(data, F), F) = NOP_filtered(data, F)

\* C10 witness: the review browser shows a filtered list that is shorter than
\* the dataset, holds several records and has two records with equal sort keys
C10_Witness ==
    /\ activeTab = "reviews"
    /\ selectedRegion # ALL
    /\ Len(processedData) >= 2
    /\ Len(processedData) < Len(data)
    /\ \E i, j \in DOMAIN processedData :
           i < j /\ DR_compare(processedData[i], processedData[j], sortField, sortOrder) = 0

\* the cascade order of the six dimensions: 1 region, 2 area manager, 3 store,
\* 4 aggregator, 5 meta cluster, 6 subject
SelectionField(k) ==
    CASE k = 1 -> "selectedRegion"
      [] k = 2 -> "selectedAreaManager"
      [] k = 3 -> "selectedStore"
      [] k = 4 -> "selectedAggregator"
      [] k = 5 -> "selectedMetaCluster"
      [] OTHER -> "selectedSubject"

OptionField(k) ==
    CASE k = 1 -> "regions"
      [] k = 2 -> "areaManagers"
      [] k = 3 -> "stores"
      [] k = 4 -> "aggregators"
      [] k = 5 -> "metaClusters"
      [] OTHER -> "subjects"

\* the field of record r that dimension k selects on
DimensionValue(r, k) ==
    CASE k = 1 -> r.Region
      [] k = 2 -> r.AreaMangerName
      [] k = 3 -> r.StoreName
      [] k = 4 -> r.Aggregator
      [] k = 5 -> r.LLM_Meta_Label
      [] OTHER -> r.Subject

\* the dimensions a view filters on: six in the review browser, four elsewhere
DimensionsOf(tab) == IF tab = "reviews" THEN 1..6 ELSE 1..4

\* the option lists a view computes from dataset R under filter state F
ViewOptions(tab, R, F) ==
    CASE tab = "reviews"  -> DR_filterOptions(R, F)
      [] tab = "overview" -> NOP_filterOptions(R, F)
      [] tab = "clusters" -> CA_filterOptions(R, F)
      [] OTHER            -> RA_filterOptions(R, F)

\* F with dimension k set to value v
WithSelection(F, k, v) == [F EXCEPT ![SelectionField(k)] = v]

\* the non-blank values dimension k takes in dataset R
ValuesOf(R, k) == {DimensionValue(R[i], k) : i \in DOMAIN R} \ {Empty}

\* C11: cascading monotonicity: in every view, changing one dimension from
\* 'all' to a specific value while the other selections stay the same never
\* increases the number of options offered for a dimension downstream of it.
C11_CascadingMonotonicity ==
    LET F == CurrentFilter
    IN  \A k \in DimensionsOf(activeTab) :
            F[SelectionField(k)] = ALL =>
                \A v \in ValuesOf(data, k) :
                    \A j \in DimensionsOf(activeTab) :
                        j > k =>
                            Len(ViewOptions(activeTab, data, WithSelection(F, k, v))[OptionField(j)])
                                <= Len(ViewOptions(activeTab, data, F)[OptionField(j)])

\* C11 witness: in the review browser a region is selected and fewer area
\* managers are offered than with region 'all'
C11_Witness ==
    /\ activeTab = "reviews"
    /\ selectedRegion # ALL
    /\ selectedAreaManager = ALL
    /\ Len(filterOptions.areaManagers)
           < Len(DR_filterOptions(data, WithSelection(CurrentFilter, 1, ALL)).areaManagers)

\* r passes the selections of F on the dimensions before k in the cascade
MatchesUpstream(r, F, k) ==
    \A u \in 1..(k - 1) : F[SelectionField(u)] \in {ALL, DimensionValue(r, u)}

\* C12: in every view, every value of the option list of a dimension is that
\* dimension's field of a record of the dataset that passes the selections on
\* the dimensions upstream of it (with a region selected, every store option
\* is the store of a record of that region); no option list holds a blank
\* value or a duplicate, and each is in ascending lexicographic order.
C12_OptionsFromUpstreamRecords ==
    LET F == CurrentFilter
    IN  \A k \in DimensionsOf(activeTab) :
            LET list == ViewOptions(activeTab, data, F)[OptionField(k)]
            IN  /\ \A i \in DOMAIN list :
                       /\ list[i] # Empty
                       /\ \E n \in DOMAIN data :
                              /\ DimensionValue(data[n], k) = list[i]
                              /\ MatchesUpstream(data[n], F, k)
                /\ \A i, j \in DOMAIN list : i < j => StrLess(list[i], list[j])

\* C12 witness: the review browser with region 'N' selected offers two stores
\* (both of region-N records), on a dataset that holds blank subjects
C12_Witness ==
    /\ activeTab = "reviews"
    /\ selectedRegion = <<78>>
    /\ Len(filterOptions.stores) = 2
    /\ \E n \in DOMAIN data : data[n].Subject = Empty
    /\ \A i \in DOMAIN filterOptions.stores :
           \E n \in DOMAIN data :
               data[n].Region = <<78>> /\ data[n].StoreName = filterOptions.stores[i]

\* the page sizes pagination is examined with: the choices of the Select and
\* small sizes that spread the list over many pages
PageSizes == RowsPerPageChoices \cup {1, 2, 3, 4}

\* the slices of pages 1..k, one after the other
RECURSIVE ConcatPages(_, _, _)
ConcatPages(list, perPage, k) ==
    IF k = 0 THEN <<>>
    ELSE ConcatPages(list, perPage, k - 1) \o DR_paginatedData(list, k, perPage)

\* C13: pagination coverage: for the sorted and filtered list of n records and
\* any rows-per-page value p, totalPages = ceil(n / p) (0 when n = 0), the
\* slices of pages 1..totalPages one after the other are the list itself, and
\* every page but the last holds exactly p records.
C13_PaginationCoverage ==
    activeTab = "reviews" =>
        LET list == processedData
            n    == Len(list)
        IN  \A p \in PageSizes \cup {rowsPerPage} :
                LET t == DR_totalPages(n, p)
                IN  /\ t * p >= n
                    /\ n = 0 => t = 0
                    /\ n > 0 => (t - 1) * p < n
                    /\ ConcatPages(list, p, t) = list
                    /\ \A k \in 1..(t - 1) : Len(DR_paginatedData(list, k, p)) = p
                    /\ t > 0 => Len(DR_paginatedData(list, t, p)) \in 1..p

\* C13 witness: the review browser shows the second and last page of eleven
\* records at ten rows per page
C13_Witness ==
    /\ activeTab = "reviews"
    /\ rowsPerPage = 10
    /\ Len(processedData) = 11
    /\ totalPages = 2
    /\ currentPage = 2
    /\ paginatedData = <<processedData[11]>>

\* C14: sort selection state machine of the review browser: it starts from
\* (date, descending); a click on the column that is the sort field flips the
\* order between ascending and descending and keeps the field; a click on
\* another column makes it the sort field with order descending, whatever the
\* order was.
C14_SortSelectionStateMachine ==
    [][/\ (activeTab # "reviews" /\ activeTab' = "reviews") =>
              (sortField' = "date" /\ sortOrder' = "desc")
       /\ \A field \in SortFields :
              handleSort(field) =>
                  IF field = sortField
                  THEN /\ sortField' = sortField
                       /\ sortOrder = "asc" => sortOrder' = "desc"
                       /\ sortOrder = "desc" => sortOrder' = "asc"
                  ELSE /\ sortField' = field
                       /\ sortOrder' = "desc"]_vars

\* C14 witness: the region column was clicked twice (new field, then flipped)
C14_Witness ==
    /\ activeTab = "reviews"
    /\ sortField = "region"
    /\ sortOrder = "asc"

\* the mapped records that pass the filter, in the order of the dataset
FilteredInOrder(R, F) ==
    SelectSeq([i \in DOMAIN R |-> [item |-> R[i], parsedDate |-> DR_parsedDate(R[i].Date)]],
              LAMBDA x : DR_keep(x, F))

\* the key a sort field reads from a mapped record: the epoch of the parsed
\* date, or the raw text of the field
SortKey(x, field) ==
    CASE field = "date"         -> DR_dateKey(x)
      [] field = "region"       -> x.item.Region
      [] field = "store"        -> x.item.StoreName
      [] field = "subject"      -> x.item.Subject
      [] OTHER                  -> x.item.LLM_Meta_Label

\* key a is before key b: by number for dates, by code unit for text
KeyBefore(a, b, field) == IF field = "date" THEN a < b ELSE StrLess(a, b)

\* C15: for every sort field and order the sorted list of the review browser
\* is a permutation of the filtered records, each adjacent pair is in
\* non-decreasing (ascending) or non-increasing (descending) order of the
\* field's key, and records with equal keys keep the relative order they had
\* in the dataset, in both orders.
C15_SortedStablePermutation ==
    activeTab = "reviews" =>
        LET sorted == processedData
            kept   == FilteredInOrder(data, CurrentFilter)
            key(x) == SortKey(x, sortField)
        IN  /\ Len(sorted) = Len(kept)
            /\ \A i \in 1..(Len(sorted) - 1) :
                   IF sortOrder = "asc"
                   THEN ~KeyBefore(key(sorted[i + 1]), key(sorted[i]), sortField)
                   ELSE ~KeyBefore(key(sorted[i]), key(sorted[i + 1]), sortField)
            /\ \A n \in DOMAIN kept :
                   SelectSeq(sorted, LAMBDA x : key(x) = key(kept[n]))
                       = SelectSeq(kept, LAMBDA x : key(x) = key(kept[n]))

\* C15 witness: the review browser is sorted by region, ascending, and two
\* different records with the same region follow each other in dataset order
C15_Witness ==
    /\ activeTab = "reviews"
    /\ sortField = "region"
    /\ sortOrder = "asc"
    /\ Len(processedData) >= 4
    /\ \E i \in 1..(Len(processedData) - 1) :
           /\ processedData[i].item.Region = processedData[i + 1].item.Region
           /\ processedData[i].item # processedData[i + 1].item
    /\ \E i \in 1..(Len(processedData) - 1) :
           StrLess(processedData[i].item.Region, processedData[i + 1].item.Region)

\* the sum of the counts of a frequency table
RECURSIVE SumCounts(_)
SumCounts(table) == IF table = <<>> THEN 0 ELSE Head(table).count + SumCounts(Tail(table))

\* table (buckets of key and count) tallies the list of keys: the counts sum
\* to the length of the list, every key of the list is in exactly one bucket,
\* every bucket counts the records of its key and holds at least one
CountClosure(table, keys) ==
    /\ SumCounts(table) = Len(keys)
    /\ \A i \in DOMAIN keys : Cardinality({b \in DOMAIN table : table[b].key = keys[i]}) = 1
    /\ \A b \in DOMAIN table :
           /\ table[b].count >= 1
           /\ table[b].count = Cardinality({i \in DOMAIN keys : keys[i] = table[b].key})

\* C16: count closure: for the record list R a view tallies and each grouping
\* key (cluster label, meta label, region, subject) the counts of the buckets
\* of the un-truncated frequency table sum to len(R), every record is counted
\* in exactly one bucket and every bucket has count >= 1.
C16_CountClosure ==
    LET F == CurrentFilter
    IN  /\ activeTab = "clusters" =>
            LET R == CA_processedData(data, F)
            IN  /\ CountClosure(CA_metaClustersData(R),
                                [i \in DOMAIN R |-> OrUnknown(R[i].item.LLM_Meta_Label)])
                /\ CountClosure(CA_llmClustersData(R),
                                [i \in DOMAIN R |-> OrUnknown(R[i].item.LLM_Cluster_Label)])
        /\ activeTab = "cities" =>
            LET R == RA_processedData(data, F)
            IN  CountClosure(RA_regionalData(R),
                             [i \in DOMAIN R |-> OrUnknown(R[i].item.Region)])
        /\ activeTab = "overview" =>
            LET R      == NOP_processedData(data, F)
                groups == NOP_metaClusterPieCharts(R)
                dist   == OP_metaClusterDistribution(data)
            IN  /\ \A g \in DOMAIN groups :
                       LET rows == SelectSeq(R, LAMBDA d :
                                       d.item.LLM_Meta_Label = groups[g].metaCluster)
                       IN  CountClosure([b \in DOMAIN groups[g].data |->
                                            [key   |-> groups[g].data[b].name,
                                             count |-> groups[g].data[b].value]],
                                        [i \in DOMAIN rows |-> OrUnknown(rows[i].item.Subject)])
                /\ CountClosure([b \in DOMAIN dist |->
                                    [key |-> dist[b].meta, count |-> dist[b].count]],
                                [i \in DOMAIN data |-> data[i].LLM_Meta_Label])

\* C16 witness: the clusters view tallies several records, some filtered
\* out, into two meta-cluster buckets that hold more than one record each
C16_Witness ==
    /\ activeTab = "clusters"
    /\ selectedRegion # ALL
    /\ LET table == CA_metaClustersData(CA_processedData(data, CurrentFilter))
       IN  /\ Len(table) = 2
           /\ \A b \in DOMAIN table : table[b].count >= 2

\* the buckets of a table are in descending order of count, equal counts in
\* ascending order of key
ByCountThenKey(table) ==
    \A b \in 1..(Len(table) - 1) :
        \/ table[b].count > table[b + 1].count
        \/ (table[b].count = table[b + 1].count /\ StrLess(table[b].key, table[b + 1].key))

\* C17: every frequency table sorted by count lists its buckets in descending
\* order of count, and two buckets with the same count are in ascending
\* lexicographic order of their key, whatever the order in which the keys
\* first occur in the records.
C17_TiesInKeyOrder ==
    LET F == CurrentFilter
        AsBuckets(pie) == [b \in DOMAIN pie |-> [key |-> pie[b].name, count |-> pie[b].value]]
    IN  /\ activeTab = "clusters" =>
            LET R == CA_processedData(data, F)
            IN  ByCountThenKey(CA_metaClustersData(R)) /\ ByCountThenKey(CA_llmClustersData(R))
        /\ activeTab = "cities" =>
            ByCountThenKey(RA_regionalData(RA_processedData(data, F)))
        /\ activeTab = "overview" =>
            LET R      == NOP_processedData(data, F)
                issues == OP_topIssues(data)
            IN  /\ ByCountThenKey(AsBuckets(NOP_pieChartData(R, "meta-clusters")))
                /\ ByCountThenKey(AsBuckets(NOP_pieChartData(R, "subjects")))
                /\ ByCountThenKey([b \in DOMAIN issues |->
                                      [key |-> issues[b].cluster, count |-> issues[b].count]])

\* the start day of the overview bucket an item falls in
NOP_bucketStart(item, p) ==
    CASE p = "daily"  -> item.t.dateObj
      [] p = "weekly" -> item.t.weekStart
      [] OTHER        -> item.t.monthStart

\* the buckets of a series are in strictly ascending order of the day each one
\* stands for; key gives the label of a processed record, start the day its
\* bucket stands for
AscendingBuckets(series, processed, key(_), start(_)) ==
    \A b \in 1..(Len(series) - 1) :
        \A i, j \in DOMAIN processed :
            (key(processed[i]) = series[b].period /\ key(processed[j]) = series[b + 1].period)
                => start(processed[i]).days < start(processed[j]).days

\* C18: in every view that emits a time series (overview, regions, clusters)
\* and for each period granularity (daily, weekly, monthly) the buckets are
\* emitted in strictly ascending order of the calendar date each bucket stands
\* for, whatever the order of the records in the dataset and whatever the
\* label text (and so whatever the engine makes of parsing a label).
C18_BucketsChronological ==
    LET F == CurrentFilter
    IN  /\ activeTab = "overview" =>
            LET R  == NOP_processedData(data, F)
                ts == NOP_timeSeriesData(R, period)
            IN  ~ts.thrown =>
                    AscendingBuckets(ts.series, R,
                                     LAMBDA d : NOP_key(d, period),
                                     LAMBDA d : NOP_bucketStart(d, period))
        /\ activeTab = "cities" =>
            LET R == RA_processedData(data, F)
            IN  \A labelsParse \in BOOLEAN :
                    AscendingBuckets(RA_timeSeriesData(R, period, labelsParse), R,
                                     LAMBDA d : periodKey(d.parsedDate, period),
                                     LAMBDA d : periodStart(d.parsedDate, period))
        /\ activeTab = "clusters" =>
            LET R == CA_processedData(data, F)
            IN  \A labelsParse \in BOOLEAN :
                    AscendingBuckets(CA_clusterTrendsData(R, period, labelsParse), R,
                                     LAMBDA d : periodKey(d.parsedDate, period),
                                     LAMBDA d : periodStart(d.parsedDate, period))

\* the sum of the values of a pie
RECURSIVE SumValues(_)
SumValues(pie) == IF pie = <<>> THEN 0 ELSE Head(pie).value + SumValues(Tail(pie))

\* C19: in the meta-cluster to subject cross-tabulation of the overview, for
\* every meta-cluster group the reported total is the number of filtered
\* records with that meta label, the inner subject counts sum to that total,
\* and each inner share is the count divided by the group's total (not by the
\* number of all filtered records).
C19_InnerSharesOfGroupTotal ==
    activeTab = "overview" =>
        LET R      == NOP_processedData(data, CurrentFilter)
            groups == NOP_metaClusterPieCharts(R)
        IN  \A g \in DOMAIN groups :
                LET inGroup == Cardinality({i \in DOMAIN R :
                                   R[i].item.LLM_Meta_Label = groups[g].metaCluster})
                IN  /\ groups[g].total = inGroup
                    /\ SumValues(groups[g].data) = inGroup
                    /\ \A b \in DOMAIN groups[g].data :
                           LET share == NOP_innerShare(groups[g].data[b], groups[g])
                               count == Cardinality({i \in DOMAIN R :
                                   /\ R[i].item.LLM_Meta_Label = groups[g].metaCluster
                                   /\ OrUnknown(R[i].item.Subject) = groups[g].data[b].name})
                           IN  /\ groups[g].data[b].value = count
                               /\ share.den > 0
                               /\ share.num * inGroup = 100 * count * share.den

\* C19 witness: the overview shows two groups, one of them with two subjects,
\* and the groups' totals are smaller than the number of filtered records
C19_Witness ==
    /\ activeTab = "overview"
    /\ LET R      == NOP_processedData(data, CurrentFilter)
           groups == NOP_metaClusterPieCharts(R)
       IN  /\ Len(groups) = 2
           /\ \E g \in DOMAIN groups : Len(groups[g].data) = 2
           /\ \A g \in DOMAIN groups : groups[g].total > 1 /\ groups[g].total < Len(R)

\* the changes of a list of deltas, in order
ChangesOf(list) == [i \in DOMAIN list |-> list[i].change]

\* the keys of a list of deltas
KeysOf(list) == {list[i].cluster : i \in DOMAIN list}

\* C20: in every trend result each delta has change = its second-half count
\* minus its first-half count; the increasing list holds only keys of positive
\* change, in non-increasing order of change, at most 3 and the 3 largest; the
\* decreasing list holds only keys of negative change, most negative first,
\* at most 3; no key is in both lists and a key of change 0 is in neither
C20_TrendLists ==
    activeTab = "overview" =>
        LET processed == NOP_processedData(data, CurrentFilter)
            result    == NOP_trendAnalysis(processed, period)
            inc       == result.increasing
            dec       == result.decreasing
        IN  /\ ~result.computed => inc = <<>> /\ dec = <<>>
            /\ result.computed =>
                 LET trends == NOP_trends(processed)
                     deltaOf(key) == CHOOSE t \in Range(trends) : t.cluster = key
                     firstCount(key) ==
                         Cardinality({i \in DOMAIN processed :
                             /\ processed[i].item.LLM_Meta_Label = key
                             /\ processed[i].t.dateObj.days
                                  <= processed[(Len(processed) \div 2) + 1].t.dateObj.days})
                     allCount(key) ==
                         Cardinality({i \in DOMAIN processed :
                             processed[i].item.LLM_Meta_Label = key})
                 IN  /\ \A i \in DOMAIN trends :
                            /\ trends[i].change = trends[i].secondHalf - trends[i].firstHalf
                            /\ trends[i].firstHalf = firstCount(trends[i].cluster)
                            /\ trends[i].secondHalf
                                 = allCount(trends[i].cluster) - firstCount(trends[i].cluster)
                            /\ \A j \in DOMAIN trends :
                                   trends[j].cluster = trends[i].cluster => j = i
                     /\ Range(inc) \subseteq Range(trends)
                     /\ Range(dec) \subseteq Range(trends)
                     /\ \A i \in DOMAIN inc : inc[i].change > 0
                     /\ \A i \in DOMAIN dec : dec[i].change < 0
                     /\ \A i, j \in DOMAIN inc : i < j => inc[i].change >= inc[j].change
                     /\ \A i, j \in DOMAIN dec : i < j => dec[i].change <= dec[j].change
                     /\ Len(inc) <= 3 /\ Len(dec) <= 3
                     /\ Cardinality(KeysOf(inc)) = Len(inc)
                     /\ Cardinality(KeysOf(dec)) = Len(dec)
                     /\ \A t \in Range(trends) \ Range(inc) :
                            t.change > 0 =>
                                /\ Len(inc) = 3
                                /\ \A i \in DOMAIN inc : inc[i].change >= t.change
                     /\ \A t \in Range(trends) \ Range(dec) :
                            t.change < 0 =>
                                /\ Len(dec) = 3
                                /\ \A i \in DOMAIN dec : dec[i].change <= t.change
                     /\ KeysOf(inc) \cap KeysOf(dec) = {}
                     /\ \A t \in Range(trends) :
                            t.change = 0 => t.cluster \notin KeysOf(inc) \cup KeysOf(dec)

\* a trend result over more positive keys than the list holds, with unequal
\* changes in the list, together with a key of negative change
C20_Witness ==
    /\ activeTab = "overview"
    /\ trendAnalysis.computed
    /\ Len(trendAnalysis.increasing) = 3
    /\ trendAnalysis.increasing[1].change > trendAnalysis.increasing[3].change
    /\ Cardinality({t \in Range(NOP_trends(NOP_processedData(data, CurrentFilter))) :
                       t.change > 0}) > 3
    /\ trendAnalysis.decreasing # <<>>

\* C21: when the filtered time series has fewer than 2 buckets the trend
\* analysis yields empty increasing and decreasing lists and the overall
\* trend presented is neither 'increasing' nor 'decreasing'; with 2 or more
\* buckets both halves of the series are non-empty
C21_NeutralBelowTwoBuckets ==
    activeTab = "overview" =>
        LET processed == NOP_processedData(data, CurrentFilter)
            ts        == NOP_timeSeriesData(processed, period)
            result    == NOP_trendAnalysis(processed, period)
        IN  ~ts.thrown =>
                /\ Len(ts.series) < 2 =>
                       /\ result.increasing = <<>>
                       /\ result.decreasing = <<>>
                       /\ NOP_overallTrendPresented(result) \notin {"increasing", "decreasing"}
                /\ Len(ts.series) >= 2 =>
                       /\ Len(ts.series) \div 2 >= 1
                       /\ Len(ts.series) - (Len(ts.series) \div 2) >= 1

\* the part of C21 the code meets: empty lists below 2 buckets, two non-empty
\* halves from 2 buckets on
C21_ListsAndHalves ==
    activeTab = "overview" =>
        LET processed == NOP_processedData(data, CurrentFilter)
            ts        == NOP_timeSeriesData(processed, period)
            result    == NOP_trendAnalysis(processed, period)
        IN  ~ts.thrown =>
                /\ Len(ts.series) < 2 =>
                       result.increasing = <<>> /\ result.decreasing = <<>>
                /\ Len(ts.series) >= 2 =>
                       /\ Len(ts.series) \div 2 >= 1
                       /\ Len(ts.series) - (Len(ts.series) \div 2) >= 1

\* the entry of the history with the given id
EntryOf(list, id) == list[CHOOSE i \in DOMAIN list : list[i].id = id]

\* the file whose status loop c awaits
Awaited(c) == checks[c].files[checks[c].next]

\* C22: a status response for job J reporting completed or failed, whenever it
\* arrives, sets the status and the processed-file name of the history entry
\* whose id is J and leaves every other entry and the order of the list
\* unchanged, also when uploads were prepended or entries updated while the
\* request was in flight; a response reporting processing changes nothing
C22_StatusAppliedById ==
    [][\A c \in 1..MaxChecks :
          StatusDelivered(c) =>
              LET J        == Awaited(c).id
                  response == checks[c].response
              IN  /\ response = "processing" => uploadedFiles' = uploadedFiles
                  /\ response \in {"completed", "failed"} =>
                       /\ Len(uploadedFiles') = Len(uploadedFiles)
                       /\ \A i \in DOMAIN uploadedFiles :
                              /\ uploadedFiles'[i].id = uploadedFiles[i].id
                              /\ uploadedFiles[i].id # J =>
                                     uploadedFiles'[i] = uploadedFiles[i]
                              /\ uploadedFiles[i].id = J =>
                                     /\ uploadedFiles'[i].status = response
                                     /\ uploadedFiles'[i].name = uploadedFiles[i].name
                                     /\ uploadedFiles'[i].processedFileName
                                          = IF response = "completed"
                                            THEN ProcessedFileName(JobOfName(Awaited(c).name))
                                            ELSE Undefined
                       /\ \E i \in DOMAIN uploadedFiles : uploadedFiles[i].id = J]_vars

\* a finished loop whose snapshot lacks an entry of the list that is still
\* processing (it was prepended while the loop was in flight), above the entry
\* the loop's response completed
C22_Witness ==
    \E c \in 1..MaxChecks :
        /\ CheckOver(c)
        /\ Len(checks[c].files) = 1
        /\ Len(uploadedFiles) = 2
        /\ uploadedFiles[1].status = "processing"
        /\ uploadedFiles[1].id # checks[c].files[1].id
        /\ uploadedFiles[2].id = checks[c].files[1].id
        /\ uploadedFiles[2].status = "completed"
        /\ uploadedFiles[2].processedFileName = ProcessedFileName(1)

\* C23: the dataset is only ever replaced by a fully fetched, decoded and
\* validated record array: when getting the download URL, fetching or decoding
\* fails, the dataset keeps its previous value and an error notification is
\* raised; the loading flag is false once the load attempt has ended, on
\* success and on failure alike
C23_DatasetOnlyFromFullLoad ==
    [][(loading /\ fetchOutcome' # fetchOutcome) =>
           /\ ~loading'
           /\ \/ /\ fetchOutcome' = "ok"
                 /\ data' = processSheet(ingestPath, sheet)
              \/ /\ fetchOutcome' # "ok"
                 /\ data' = data
                 /\ lastToast' = "failed"]_vars

\* C23 for the attempts whose awaits threw, and for the loading flag
C23_ThrownLoadKeepsDataset ==
    [][(loading /\ fetchOutcome' # fetchOutcome) =>
           /\ ~loading'
           /\ fetchOutcome' \in {"url-failed", "fetch-rejected", "decode-threw"} =>
                  data' = data /\ lastToast' = "failed"]_vars

\* dateRaw has fewer than 3 parts or a day, month or year part that is not
\* written in digits
MissingOrNonNumericPart(raw) ==
    LET parts == split(raw, Slash)
    IN  \/ Len(parts) < 3
        \/ \E k \in 1..3 : ~IsNumericText(parts[k])

\* C24: date resolution yields a null parsedDate and an empty fiscal year
\* whenever dateRaw splits on '/' into fewer than 3 parts or a day, month or
\* year part is not numeric; a parsedDate that is not null is a valid calendar
\* date
C24_NonNumericPartResolvesToNull ==
    dateOut.done =>
        /\ MissingOrNonNumericPart(dateIn) =>
               /\ dateOut.reviews = NullDate
               /\ dateOut.clusters.parsedDate = NullDate
               /\ dateOut.clusters.financialYear = Empty
        /\ dateOut.reviews # NullDate => dateOut.reviews.kind = "date"
        /\ dateOut.clusters.parsedDate # NullDate => dateOut.clusters.parsedDate.kind = "date"

\* the part of C24 the code meets: a dateRaw with fewer than 3 parts or an
\* empty part resolves to null and to an empty fiscal year
C24_MissingPartResolvesToNull ==
    dateOut.done =>
        LET parts == split(dateIn, Slash)
        IN  (Len(parts) < 3 \/ \E k \in 1..3 : parts[k] = Empty) =>
                /\ dateOut.reviews = NullDate
                /\ dateOut.clusters.parsedDate = NullDate
                /\ dateOut.clusters.financialYear = Empty

\* the day of the record at index floor(n / 2) of the records sorted
\* chronologically
ChronologicalMidpoint(processed) ==
    LET n    == Len(processed)
        day(i) == processed[i].t.dateObj.days
    IN  CHOOSE d \in {day(i) : i \in DOMAIN processed} :
            /\ Cardinality({i \in DOMAIN processed : day(i) < d}) <= n \div 2
            /\ Cardinality({i \in DOMAIN processed : day(i) <= d}) > n \div 2

\* C25: the per-key trend split uses as midpoint date the date of the record
\* at index floor(n / 2) of the n filtered records sorted chronologically;
\* first-half counts are the records dated at or before it and second-half
\* counts those dated strictly after it, so the deltas do not depend on the
\* order of the records in the dataset
C25_MidpointOfSortedRecords ==
    activeTab = "overview" =>
        LET processed == NOP_processedData(data, CurrentFilter)
            result    == NOP_trendAnalysis(processed, period)
        IN  result.computed =>
                LET mid    == ChronologicalMidpoint(processed)
                    trends == NOP_trends(processed)
                IN  \A k \in DOMAIN trends :
                        /\ trends[k].firstHalf
                             = Cardinality({i \in DOMAIN processed :
                                   /\ processed[i].item.LLM_Meta_Label = trends[k].cluster
                                   /\ processed[i].t.dateObj.days <= mid})
                        /\ trends[k].secondHalf
                             = Cardinality({i \in DOMAIN processed :
                                   /\ processed[i].item.LLM_Meta_Label = trends[k].cluster
                                   /\ processed[i].t.dateObj.days > mid})

\* C26: after any sequence of review-browser operations the current page is
\* in range, 1 <= currentPage <= max(1, totalPages), so the table never shows
\* an empty page while the filtered list is not empty
C26_CurrentPageInRange ==
    activeTab = "reviews" =>
        /\ 1 <= currentPage
        /\ currentPage <= Max(1, totalPages)
        /\ processedData # <<>> => paginatedData # <<>>

\* C27: after any sequence of filter selections in which only offered values
\* (or 'all') are picked, the selected value of every dimension is 'all' or a
\* member of the option list the view currently offers for that dimension
C27_SelectionStaysOffered ==
    \A k \in DimensionsOf(activeTab) :
        CurrentFilter[SelectionField(k)]
            \in {ALL} \cup Range(filterOptions[OptionField(k)])

\* C28: job status is monotone: once a history entry is completed or failed,
\* no later-arriving status response (of an overlapping poll, a manual refresh
\* or a loop started from an older snapshot) changes its status or its
\* processed-file name, and no entry returns to processing
C28_StatusMonotone ==
    [][\A i \in DOMAIN uploadedFiles :
          uploadedFiles[i].status \in {"completed", "failed"} =>
              \E k \in DOMAIN uploadedFiles' :
                  /\ uploadedFiles'[k].id = uploadedFiles[i].id
                  /\ uploadedFiles'[k].status = uploadedFiles[i].status
                  /\ uploadedFiles'[k].processedFileName
                       = uploadedFiles[i].processedFileName]_vars

\* an entry completed by one loop while another loop, started when the entry
\* was processing, holds a response for it that says processing
C28_Witness ==
    \E c1, c2 \in 1..MaxChecks, i \in DOMAIN uploadedFiles :
        /\ c1 # c2
        /\ uploadedFiles[i].status = "completed"
        /\ CheckOver(c1)
        /\ \E k \in DOMAIN checks[c1].files : checks[c1].files[k].id = uploadedFiles[i].id
        /\ ~CheckOver(c2)
        /\ Awaited(c2).id = uploadedFiles[i].id
        /\ checks[c2].response = "processing"

RECURSIVE SumHalves(_)
SumHalves(trends) ==
    IF trends = <<>> THEN 0
    ELSE Head(trends).firstHalf + Head(trends).secondHalf + SumHalves(Tail(trends))

\* C29: whenever a trend is computed the per-key split is a partition: for
\* every meta-cluster key the first-half count plus the second-half count is
\* the number of filtered records carrying the key, and the sum of both counts
\* over all keys is the number of filtered records
C29_SplitIsPartition ==
    activeTab = "overview" =>
        LET processed == NOP_processedData(data, CurrentFilter)
            result    == NOP_trendAnalysis(processed, period)
            trends    == NOP_trends(processed)
        IN  result.computed =>
                /\ \A k \in DOMAIN trends :
                       trends[k].firstHalf + trends[k].secondHalf
                           = Cardinality({i \in DOMAIN processed :
                                 processed[i].item.LLM_Meta_Label = trends[k].cluster})
                /\ SumHalves(trends) = Len(processed)

\* a computed trend with a key that has records in both halves
C29_Witness ==
    /\ activeTab = "overview"
    /\ trendAnalysis.computed
    /\ \E t \in Range(NOP_trends(NOP_processedData(data, CurrentFilter))) :
           t.firstHalf > 0 /\ t.secondHalf > 0

\* the history holds an entry of job j whose status is among the given ones
EntryStatusIn(j, statuses) ==
    \E i \in DOMAIN uploadedFiles :
        uploadedFiles[i].id = FileId(j) /\ uploadedFiles[i].status \in statuses

\* C30: polling liveness: when a history entry is processing and the service
\* answers status checks for its job with completed or failed, the entry's
\* status eventually becomes completed or failed, under fair firing of the
\* poll timer and delivery of the responses, also while other uploads change
\* the list; a failed status check leaves the list as it is
C30_PollingLiveness ==
    /\ \A j \in Jobs :
           (EntryStatusIn(j, {"processing"}) /\ service[j] \in {"completed", "failed"})
               ~> EntryStatusIn(j, {"completed", "failed"})
    /\ [][\A c \in 1..MaxChecks :
              (StatusDelivered(c) /\ checks[c].response = "error") =>
                  uploadedFiles' = uploadedFiles]_vars

\* an entry completed although a status check failed and another upload
\* changed the list
C30_Witness ==
    /\ failures > 0
    /\ Len(uploadedFiles) = 2
    /\ EntryStatusIn(1, {"completed"})
    /\ service[1] = "completed"

====
